---- MODULE Spec2Model ----
(***************************************************************************)
(* The incremental diff/merge engine of the translation platform,          *)
(* scripts/process-translation-claude-fixed.js, class                      *)
(* IncrementalTranslationProcessor.                                        *)
(*                                                                         *)
(* A JSON value is a record [kind, v, ref, kids]:                          *)
(*   kind  "str" | "num" | "null" | "arr" | "obj"                          *)
(*   v     the text of a string or a number ("" otherwise)                 *)
(*   ref   the identity of an array object: the number of the JSON.parse   *)
(*         call that created it (0 for values that have no identity that   *)
(*         the code ever compares)                                         *)
(*   kids  the own properties of an object or an array, a function from    *)
(*         keys to values (<<>> for primitives)                            *)
(* A key, and a dotted path, is a string, written as the sequence of its   *)
(* characters so that joining with "." and split('.') are computed.        *)
(* A JavaScript object lists its keys in the order KeyOrder.               *)
(***************************************************************************)
EXTENDS Integers, Sequences, FiniteSets, TLC

VARIABLES
    pc,             \* position in the operation under way
    obj,            \* the flattener's input document
    flat,           \* flattenObject(obj), a list of [key, value] entries
    unflat,         \* unflattenObject(flat)
    previousFiles,  \* the snapshot as loaded: file name -> document
    currentFiles,   \* the base-language files as read: file name -> document
    fileName,       \* the file detectFileChanges was called for
    fileChanges,    \* what detectFileChanges returned
    changes,        \* what detectChanges returned
    baseFiles,      \* on disk: languages/en-US, file name -> document
    snapshot,       \* on disk: .translation-backup/previous-state.json
    store,          \* on disk: languages/<language>, file name -> document
    existingTranslations,  \* what loadExistingTranslations returned
    contentToTranslate,    \* the delta translateChanges built
    requests,              \* calls of callClaude made by the run
    newTranslations,       \* what translateChanges returned
    mergedTranslations,    \* what mergeTranslations returned
    mergeTarget,    \* the document deepMerge and deleteNestedKey are called on
    mergeSource,    \* the second argument of deepMerge
    mergeResult,    \* what deepMerge returned
    deletedKey,     \* the key deleteNestedKey is called with
    deleteOutcome,  \* deleteNestedKey's outcome: [thrown, obj]
    mergeExisting,  \* the existingTranslations a lone mergeTranslations is given
    mergeChanges,   \* the changes it is given
    mergeOutcome,   \* its outcome: [thrown, obj, existing]
    runs,           \* two runs on one disk: run number -> the locals of the run
    sourceFiles,    \* full translator: what readBaseFiles returned
    fullTranslations,  \* full translator: the parsed response, then what callClaude returned
    mcpEnv,         \* MCP processor: what is installed beside the script
    attempts,       \* MCP processor: the load options tried, in order
    mcpTool,        \* MCP processor: the tool loadTypeScriptMCP returned
    mcpResult,      \* MCP processor: how executeMCPTool ended
    simText,        \* simulation: the text translateString is called with
    simLanguage,    \* simulation: the language whose dictionary it is given
    simResult       \* simulation: what translateString returned

flatVars == <<obj, flat, unflat>>
detectVars == <<previousFiles, currentFiles, fileName, fileChanges, changes>>
diskVars == <<baseFiles, snapshot, store>>
runVars == <<existingTranslations, contentToTranslate, requests,
             newTranslations, mergedTranslations>>
mergeVars == <<mergeTarget, mergeSource, mergeResult, deletedKey, deleteOutcome,
               mergeExisting, mergeChanges, mergeOutcome>>
fullVars == <<sourceFiles, fullTranslations>>
mcpVars == <<mcpEnv, attempts, mcpTool, mcpResult>>
simVars == <<simText, simLanguage, simResult>>
scriptVars == <<fullVars, mcpVars, simVars>>
vars == <<pc, flatVars, detectVars, diskVars, runVars, mergeVars, runs, scriptVars>>

----------------------------------------------------------------------------
(* JSON values *)

NoKids == <<>>

Str(s) == [kind |-> "str", v |-> s, ref |-> 0, kids |-> NoKids]
Num(s) == [kind |-> "num", v |-> s, ref |-> 0, kids |-> NoKids]
Null == [kind |-> "null", v |-> "", ref |-> 0, kids |-> NoKids]
Obj(f) == [kind |-> "obj", v |-> "", ref |-> 0, kids |-> f]

kA == <<"a">>
kB == <<"b">>
kC == <<"c">>
kAB == <<"a", ".", "b">>
kEmpty == <<>>
kIdx == <<"0">>

\* The array ["x"], created by parse number r.
Arr(r) == [kind |-> "arr", v |-> "", ref |-> r, kids |-> (kIdx :> Str("x"))]

\* Object.keys order of the model's objects.
KeyOrder == <<kIdx, kA, kB, kC, kAB, kEmpty>>

EmptyObject == <<>>

\* Object.entries(o) / Object.keys(o): the keys of o, in order.
ObjectKeys(o) == SelectSeq(KeyOrder, LAMBDA k : k \in DOMAIN o)

\* o[key] = value
SetProp(o, key, value) ==
    [k \in (DOMAIN o) \cup {key} |-> IF k = key THEN value ELSE o[k]]

\* delete o[key]
DeleteProp(o, key) == [k \in (DOMAIN o) \ {key} |-> o[k]]

\* typeof value === 'object' && value !== null && !Array.isArray(value)
IsMapping(value) == value.kind = "obj"

\* JavaScript truthiness of a value that is present.
Truthy(value) ==
    CASE value.kind = "str" -> value.v # ""
      [] value.kind = "num" -> value.v # "0"
      [] value.kind = "null" -> FALSE
      [] OTHER -> TRUE

\* A variant of StrictEq: the comparison with != instead of !==, under
\* which a number and the string of its digits are equal.
LooseEq(a, b) ==
    IF a.kind \in {"arr", "obj"} \/ b.kind \in {"arr", "obj"}
    THEN a.kind = b.kind /\ a.ref = b.ref /\ a.ref # 0
    ELSE IF a.kind = "null" \/ b.kind = "null" THEN a.kind = b.kind
    ELSE a.v = b.v

\* a !== b is ~StrictEq(a, b): primitives by type and value, arrays and
\* objects by identity.
StrictEq(a, b) ==
    /\ a.kind = b.kind
    /\ IF a.kind \in {"arr", "obj"} THEN a.ref = b.ref /\ a.ref # 0 ELSE a.v = b.v

\* The same value with every array identity erased: what JSON.stringify
\* writes, and the value up to structural equality.
RECURSIVE Plain(_)
Plain(value) ==
    [kind |-> value.kind, v |-> value.v, ref |-> 0,
     kids |-> [k \in DOMAIN value.kids |-> Plain(value.kids[k])]]

PlainDoc(o) == [k \in DOMAIN o |-> Plain(o[k])]

\* JSON.parse(JSON.stringify(o)) by parse number r: a structural copy in
\* which every array is a new object.
RECURSIVE Reparse(_, _)
Reparse(value, r) ==
    [kind |-> value.kind, v |-> value.v,
     ref |-> IF value.kind = "arr" THEN r ELSE 0,
     kids |-> [k \in DOMAIN value.kids |-> Reparse(value.kids[k], r)]]

ReparseDoc(o, r) == [k \in DOMAIN o |-> Reparse(o[k], r)]

----------------------------------------------------------------------------
(* Dotted paths *)

\* `${prefix}.${key}`
Dot(prefix, key) == prefix \o <<".">> \o key

\* key.split('.')
RECURSIVE Split(_)
Split(s) ==
    IF \A i \in 1..Len(s) : s[i] # "."
    THEN <<s>>
    ELSE LET i == CHOOSE n \in 1..Len(s) :
                      s[n] = "." /\ \A j \in 1..(n - 1) : s[j] # "."
         IN <<SubSeq(s, 1, i - 1)>> \o Split(SubSeq(s, i + 1, Len(s)))

----------------------------------------------------------------------------
(* Flat maps: the objects flattenObject builds, as lists of [key, value]   *)
(* entries in insertion order.                                             *)

HasOwn(entries, key) == \E i \in 1..Len(entries) : entries[i].key = key

Lookup(entries, key) ==
    entries[CHOOSE i \in 1..Len(entries) : entries[i].key = key].value

FlatKeys(entries) == {entries[i].key : i \in 1..Len(entries)}

\* result[key] = value: in place when the key exists, appended otherwise.
PutEntry(entries, key, value) ==
    IF HasOwn(entries, key)
    THEN [i \in 1..Len(entries) |->
             IF entries[i].key = key THEN [key |-> key, value |-> value]
             ELSE entries[i]]
    ELSE Append(entries, [key |-> key, value |-> value])

\* Object.assign(result, more)
RECURSIVE ObjectAssign(_, _)
ObjectAssign(result, more) ==
    IF more = <<>> THEN result
    ELSE ObjectAssign(PutEntry(result, Head(more).key, Head(more).value),
                      Tail(more))

\* flattenObject(o, prefix): FlattenKeys is its for-loop over the keys ks
\* still to visit.
RECURSIVE flattenObject(_, _)
RECURSIVE FlattenKeys(_, _, _, _)

\* A variant of flattenObject that does not descend: a nested mapping is
\* emitted as if it were a leaf.
flattenObjectShallow(o, prefix) ==
    [i \in 1..Len(ObjectKeys(o)) |->
        [key |-> IF prefix # <<>> THEN Dot(prefix, ObjectKeys(o)[i])
                 ELSE ObjectKeys(o)[i],
         value |-> o[ObjectKeys(o)[i]]]]

\* A variant of flattenObject that forgets the prefix of the keys above.
flattenObjectNoPrefix(o, prefix) == FlattenKeys(o, <<>>, ObjectKeys(o), <<>>)

FlattenKeys(o, prefix, ks, result) ==
    IF ks = <<>> THEN result
    ELSE LET key == Head(ks)
             value == o[key]
             newKey == IF prefix # <<>> THEN Dot(prefix, key) ELSE key
         IN FlattenKeys(o, prefix, Tail(ks),
                IF IsMapping(value)
                THEN ObjectAssign(result, flattenObject(value.kids, newKey))
                ELSE PutEntry(result, newKey, value))

flattenObject(o, prefix) == FlattenKeys(o, prefix, ObjectKeys(o), <<>>)

\* The walk of unflattenObject and setNestedValue from `current` along the
\* keys ks to the assignment of the last one. The result is
\* [thrown, obj]: the module is strict-mode code, where creating a property
\* on a primitive throws a TypeError. A property set on an array is not one
\* of its JSON elements.
RECURSIVE AssignPath(_, _, _)
AssignPath(current, ks, value) ==
    IF Len(ks) = 1
    THEN [thrown |-> FALSE, obj |-> SetProp(current, ks[1], value)]
    ELSE LET k == Head(ks)
             missing == ~(k \in DOMAIN current /\ Truthy(current[k]))
             next == IF missing THEN Obj(EmptyObject) ELSE current[k]
         IN CASE next.kind = "obj" ->
                     LET r == AssignPath(next.kids, Tail(ks), value)
                     IN [thrown |-> r.thrown,
                         obj |-> SetProp(current, k, Obj(r.obj))]
              [] next.kind = "arr" ->
                     [thrown |-> FALSE, obj |-> current]
              [] OTHER ->
                     [thrown |-> TRUE, obj |-> current]

\* unflattenObject(flatObj): UnflattenEntries is its for-loop.
RECURSIVE UnflattenEntries(_, _)
UnflattenEntries(entries, result) ==
    IF entries = <<>> THEN [thrown |-> FALSE, obj |-> result]
    ELSE LET r == AssignPath(result, Split(Head(entries).key),
                             Head(entries).value)
         IN IF r.thrown THEN r ELSE UnflattenEntries(Tail(entries), r.obj)

\* A variant of unflattenObject that assigns each flat key as it is,
\* without split('.').
unflattenObjectNoSplit(flatObj) ==
    [thrown |-> FALSE,
     obj |-> [k \in FlatKeys(flatObj) |-> Lookup(flatObj, k)]]

unflattenObject(flatObj) == UnflattenEntries(flatObj, EmptyObject)

----------------------------------------------------------------------------
(* Change detection *)

\* The file names, in the order readdir lists them.
FileOrder == <<"a.json", "b.json">>

\* Object.keys(files)
FileNames(files) == SelectSeq(FileOrder, LAMBDA f : f \in DOMAIN files)

Map(seq, Op(_)) == [i \in 1..Len(seq) |-> Op(seq[i])]

SeqSet(seq) == {seq[i] : i \in 1..Len(seq)}

NoFileChanges ==
    [hasChanges |-> FALSE, newKeys |-> <<>>, modifiedKeys |-> <<>>,
     deletedKeys |-> <<>>]

detectFileChanges(previousContent, currentContent) ==
    LET previousFlat == flattenObject(previousContent, <<>>)
        currentFlat == flattenObject(currentContent, <<>>)
        newKeys ==
            SelectSeq(currentFlat, LAMBDA e : ~HasOwn(previousFlat, e.key))
        modifiedKeys ==
            Map(SelectSeq(currentFlat,
                    LAMBDA e : /\ HasOwn(previousFlat, e.key)
                               /\ ~StrictEq(Lookup(previousFlat, e.key), e.value)),
                LAMBDA e : [key |-> e.key,
                            oldValue |-> Lookup(previousFlat, e.key),
                            newValue |-> e.value])
        deletedKeys ==
            Map(SelectSeq(previousFlat, LAMBDA e : ~HasOwn(currentFlat, e.key)),
                LAMBDA e : e.key)
    IN [hasChanges |-> newKeys # <<>> \/ modifiedKeys # <<>> \/ deletedKeys # <<>>,
        newKeys |-> newKeys,
        modifiedKeys |-> modifiedKeys,
        deletedKeys |-> deletedKeys]

NoChanges ==
    [hasChanges |-> FALSE, newFiles |-> <<>>, modifiedFiles |-> <<>>,
     newKeys |-> <<>>, modifiedKeys |-> <<>>, deletedKeys |-> <<>>]

\* A variant of InSnapshot that takes a snapshot document without keys for
\* a missing one.
InSnapshotWithKeys(previous, f) ==
    f \in DOMAIN previous /\ previous[f] # EmptyObject

\* previousFiles[fileName] is truthy: the snapshot has the file (a document
\* is an object, and every object is truthy).
InSnapshot(previous, f) == f \in DOMAIN previous

\* A variant of detectChanges that raises hasChanges for modified files
\* only, not for new ones.
detectChangesModifiedOnly(previous, current) ==
    LET newFiles ==
            SelectSeq(FileNames(current), LAMBDA f : ~InSnapshot(previous, f))
        modifiedFiles ==
            SelectSeq(FileNames(current),
                LAMBDA f : /\ InSnapshot(previous, f)
                           /\ detectFileChanges(previous[f], current[f]).hasChanges)
        modified == {modifiedFiles[i] : i \in 1..Len(modifiedFiles)}
    IN [hasChanges |-> modifiedFiles # <<>>,
        newFiles |-> newFiles,
        modifiedFiles |-> modifiedFiles,
        newKeys |->
            [f \in modified |-> detectFileChanges(previous[f], current[f]).newKeys],
        modifiedKeys |->
            [f \in modified |-> detectFileChanges(previous[f], current[f]).modifiedKeys],
        deletedKeys |->
            [f \in modified |-> detectFileChanges(previous[f], current[f]).deletedKeys]]

\* A variant of detectChanges that raises hasChanges for a file that is
\* only in the snapshot.
detectChangesCountsRemoved(previous, current) ==
    LET newFiles ==
            SelectSeq(FileNames(current), LAMBDA f : ~InSnapshot(previous, f))
        modifiedFiles ==
            SelectSeq(FileNames(current),
                LAMBDA f : /\ InSnapshot(previous, f)
                           /\ detectFileChanges(previous[f], current[f]).hasChanges)
        modified == {modifiedFiles[i] : i \in 1..Len(modifiedFiles)}
    IN [hasChanges |-> \/ newFiles # <<>>
                       \/ modifiedFiles # <<>>
                       \/ DOMAIN previous \ DOMAIN current # {},
        newFiles |-> newFiles,
        modifiedFiles |-> modifiedFiles,
        newKeys |->
            [f \in modified |-> detectFileChanges(previous[f], current[f]).newKeys],
        modifiedKeys |->
            [f \in modified |-> detectFileChanges(previous[f], current[f]).modifiedKeys],
        deletedKeys |->
            [f \in modified |-> detectFileChanges(previous[f], current[f]).deletedKeys]]

detectChanges(previous, current) ==
    LET newFiles ==
            SelectSeq(FileNames(current), LAMBDA f : ~InSnapshot(previous, f))
        modifiedFiles ==
            SelectSeq(FileNames(current),
                LAMBDA f : /\ InSnapshot(previous, f)
                           /\ detectFileChanges(previous[f], current[f]).hasChanges)
        modified == {modifiedFiles[i] : i \in 1..Len(modifiedFiles)}
    IN [hasChanges |-> newFiles # <<>> \/ modifiedFiles # <<>>,
        newFiles |-> newFiles,
        modifiedFiles |-> modifiedFiles,
        newKeys |->
            [f \in modified |-> detectFileChanges(previous[f], current[f]).newKeys],
        modifiedKeys |->
            [f \in modified |-> detectFileChanges(previous[f], current[f]).modifiedKeys],
        deletedKeys |->
            [f \in modified |-> detectFileChanges(previous[f], current[f]).deletedKeys]]

----------------------------------------------------------------------------
(* Delta building and merging *)

\* this.targetLanguages: two of the eleven languages of the constructor.
targetLanguages == <<"es", "fr">>

Languages == {targetLanguages[i] : i \in 1..Len(targetLanguages)}

\* The parse calls of a run, which give the arrays they create an identity.
ParseSnapshot == 1
ParseBase == 2
ParseStore == 3
ParseClone == 4
ParseResponse == 5

ReparseFiles(files, r) == [f \in DOMAIN files |-> ReparseDoc(files[f], r)]

\* setNestedValue(o, key, value)
setNestedValue(o, key, value) == AssignPath(o, Split(key), value)

\* The two loops of translateChanges over the new and the modified keys of
\* one file: setNestedValue for each entry, until one throws.
RECURSIVE SetEach(_, _)
SetEach(r, entries) ==
    IF r.thrown \/ entries = <<>> THEN r
    ELSE SetEach(setNestedValue(r.obj, Head(entries).key, Head(entries).value),
                 Tail(entries))

\* The loop of translateChanges over changes.modifiedFiles.
RECURSIVE AddModifiedFiles(_, _, _)
AddModifiedFiles(r, ch, files) ==
    IF r.thrown \/ files = <<>> THEN r
    ELSE LET f == Head(files)
             start == IF f \in DOMAIN r.obj THEN r.obj[f] ELSE EmptyObject
             added == SetEach([thrown |-> FALSE, obj |-> start], ch.newKeys[f])
             done == SetEach(added,
                         Map(ch.modifiedKeys[f],
                             LAMBDA e : [key |-> e.key, value |-> e.newValue]))
         IN AddModifiedFiles([thrown |-> done.thrown,
                              obj |-> (f :> done.obj) @@ r.obj],
                             ch, Tail(files))

\* A variant of BuildContent that sends every modified file whole.
BuildContentWholeFiles(ch, base) ==
    [thrown |-> FALSE,
     obj |-> [f \in (SeqSet(ch.newFiles) \cup SeqSet(ch.modifiedFiles))
                        \cap DOMAIN base |-> base[f]]]

\* A variant of BuildContent that starts the document of a new file empty,
\* as it does for a modified one.
BuildContentNewFilesSparse(ch, base) ==
    LET new == {ch.newFiles[i] : i \in 1..Len(ch.newFiles)} \cap DOMAIN base
    IN AddModifiedFiles([thrown |-> FALSE, obj |-> [f \in new |-> EmptyObject]],
                        ch, ch.modifiedFiles)

\* The content translateChanges builds from the changes and from the base
\* files as it reads them again: [thrown, obj], obj the delta.
BuildContent(ch, base) ==
    LET new == {ch.newFiles[i] : i \in 1..Len(ch.newFiles)} \cap DOMAIN base
    IN AddModifiedFiles([thrown |-> FALSE, obj |-> [f \in new |-> base[f]]],
                        ch, ch.modifiedFiles)

\* A variant of deepMerge that never recurses: every key of source
\* overwrites.
deepMergeOverwrite(target, source) ==
    [key \in (DOMAIN target) \cup (DOMAIN source) |->
        IF key \in DOMAIN source THEN source[key] ELSE target[key]]

\* deepMerge(target, source), on the properties of the two objects. The
\* spread of an array gives an object with its elements as properties.
RECURSIVE deepMerge(_, _)
deepMerge(target, source) ==
    [key \in (DOMAIN target) \cup (DOMAIN source) |->
        IF key \notin DOMAIN source THEN target[key]
        ELSE IF /\ IsMapping(source[key])
                /\ key \in DOMAIN target
                /\ target[key].kind \in {"obj", "arr"}
             THEN Obj(deepMerge(target[key].kids, source[key].kids))
             ELSE source[key]]

\* The walk of deleteNestedKey from the value `current` along the keys ks
\* to the delete of the last one. The result is [thrown, obj], obj the
\* value `current` after the call. A string has its characters as own
\* properties that cannot be deleted: the class body is strict-mode code,
\* where such a delete throws a TypeError; the character a walk steps into
\* is again a string with a character at index 0. An array loses the
\* element. A delete of any other property of a primitive does nothing.
RECURSIVE DeletePath(_, _)
DeletePath(current, ks) ==
    LET k == Head(ks)
        own == CASE current.kind \in {"obj", "arr"} -> k \in DOMAIN current.kids
                 [] current.kind = "str" -> k = kIdx /\ current.v # ""
                 [] OTHER -> FALSE
    IN IF Len(ks) = 1
       THEN CASE current.kind \in {"obj", "arr"} ->
                     [thrown |-> FALSE,
                      obj |-> [current EXCEPT !.kids = DeleteProp(@, k)]]
              [] current.kind = "str" /\ own ->
                     [thrown |-> TRUE, obj |-> current]
              [] OTHER ->
                     [thrown |-> FALSE, obj |-> current]
       ELSE IF ~own THEN [thrown |-> FALSE, obj |-> current]
       ELSE LET next == IF current.kind = "str" THEN current
                        ELSE current.kids[k]
            IN IF ~Truthy(next) THEN [thrown |-> FALSE, obj |-> current]
               ELSE LET r == DeletePath(next, Tail(ks))
                    IN [thrown |-> r.thrown,
                        obj |-> IF current.kind = "str" THEN current
                                ELSE [current EXCEPT !.kids = SetProp(@, k, r.obj)]]

\* A variant of deleteNestedKey that deletes the dotted key itself,
\* without split('.').
deleteNestedKeyNoSplit(o, key) ==
    [thrown |-> FALSE, obj |-> DeleteProp(o, key)]

\* deleteNestedKey(o, key) on the document o: [thrown, obj], obj the
\* document after the call.
deleteNestedKey(o, key) ==
    LET r == DeletePath(Obj(o), Split(key))
    IN [thrown |-> r.thrown, obj |-> r.obj.kids]

\* for (const deletedKey of changes.deletedKeys[fileName]), until a delete
\* throws.
RECURSIVE DeleteEach(_, _)
DeleteEach(r, keys) ==
    IF r.thrown \/ keys = <<>> THEN r
    ELSE DeleteEach(deleteNestedKey(r.obj, Head(keys)), Tail(keys))

\* The part of mergeTranslations for one language: the files of the
\* language after the new translations are merged in.
MergeLanguage(files, new) ==
    [f \in (DOMAIN files) \cup (DOMAIN new) |->
        IF f \notin DOMAIN new THEN files[f]
        ELSE IF f \notin DOMAIN files THEN new[f]
        ELSE deepMerge(files[f], new[f])]

\* The part of mergeTranslations for one language: the loop over
\* changes.modifiedFiles that removes the deleted keys from the files the
\* language has, until a delete throws. r is [thrown, obj], obj the files
\* of the language.
RECURSIVE DeleteLanguage(_, _, _)
DeleteLanguage(r, ch, files) ==
    IF r.thrown \/ files = <<>> THEN r
    ELSE LET f == Head(files)
         IN IF f \in DOMAIN ch.deletedKeys /\ f \in DOMAIN r.obj
            THEN LET d == DeleteEach([thrown |-> FALSE, obj |-> r.obj[f]],
                                     ch.deletedKeys[f])
                 IN DeleteLanguage([thrown |-> d.thrown,
                                    obj |-> (f :> d.obj) @@ r.obj],
                                   ch, Tail(files))
            ELSE DeleteLanguage(r, ch, Tail(files))

\* A variant of DeepClone: the assignment of the object itself, so that the
\* working object of the merge is the caller's.
SameObject(existing) == [fresh |-> FALSE, obj |-> existing]

\* JSON.parse(JSON.stringify(existing)): a structural copy none of whose
\* objects is an object of `existing`.
DeepClone(existing) ==
    [fresh |-> TRUE,
     obj |-> [l \in DOMAIN existing |-> ReparseFiles(existing[l], ParseClone)]]

\* The loop of mergeTranslations over this.targetLanguages, on the working
\* object r.obj, until a delete throws.
RECURSIVE MergeLanguages(_, _, _, _)
MergeLanguages(r, languages, new, ch) ==
    IF r.thrown \/ languages = <<>> THEN r
    ELSE LET l == Head(languages)
             files == IF l \in DOMAIN r.obj THEN r.obj[l] ELSE <<>>
             merged == IF l \in DOMAIN new
                       THEN MergeLanguage(files, new[l])
                       ELSE files
             d == DeleteLanguage([thrown |-> FALSE, obj |-> merged],
                                 ch, ch.modifiedFiles)
         IN MergeLanguages([thrown |-> d.thrown, obj |-> (l :> d.obj) @@ r.obj],
                           Tail(languages), new, ch)

\* A variant of mergeTranslations that starts from an empty object instead
\* of the copy of `existing`.
mergeTranslationsFromEmpty(existing, new, ch) ==
    LET r == MergeLanguages([thrown |-> FALSE, obj |-> <<>>],
                            targetLanguages, new, ch)
    IN [thrown |-> r.thrown, obj |-> r.obj, existing |-> existing]

\* mergeTranslations(existing, new, ch): [thrown, obj, existing]. obj is
\* the object it returns, language -> file name -> document (the working
\* object as it stood when it has thrown); existing is the caller's object
\* after the call, which the working object's writes reach only when the
\* two are the same object. deleteNestedKey works in place on objects that
\* new shares with the result; new is not read again by the run.
mergeTranslations(existing, new, ch) ==
    LET clone == DeepClone(existing)
        r == MergeLanguages([thrown |-> FALSE, obj |-> clone.obj],
                            targetLanguages, new, ch)
    IN [thrown |-> r.thrown,
        obj |-> r.obj,
        existing |-> IF clone.fresh THEN existing ELSE r.obj]

----------------------------------------------------------------------------
(* Documents the model draws its inputs from *)

\* The number of different source texts in the documents.
NumTexts == 2

TextPool == <<"x", "y", "z">>
Texts == {TextPool[i] : i \in 1..NumTexts}

Absent == [kind |-> "absent", v |-> "", ref |-> 0, kids |-> NoKids]

\* Every object that gives each key k of DOMAIN allowed either no value or
\* one of allowed[k].
ObjectsOver(allowed) ==
    LET keys == DOMAIN allowed
        all == UNION {allowed[k] : k \in keys} \cup {Absent}
        picks == {f \in [keys -> all] :
                     \A k \in keys : f[k] = Absent \/ f[k] \in allowed[k]}
    IN {[k \in {x \in keys : f[x] # Absent} |-> f[k]] : f \in picks}

\* A key written in a file as a plain name: not empty and without '.'.
PlainKey(key) == key # <<>> /\ \A i \in 1..Len(key) : key[i] # "."

\* Every key of the document, at every depth, is a plain name.
RECURSIVE PlainKeys(_)
PlainKeys(o) ==
    \A k \in DOMAIN o :
        PlainKey(k) /\ (IsMapping(o[k]) => PlainKeys(o[k].kids))

\* Some nested mapping of the document has no keys.
RECURSIVE HasEmptyMapping(_)
HasEmptyMapping(o) ==
    \E k \in DOMAIN o :
        IsMapping(o[k]) /\ (o[k].kids = EmptyObject \/ HasEmptyMapping(o[k].kids))

\* The leaves of a document: <<chain of keys, value>> for every value that
\* is not a nested mapping.
RECURSIVE LeafChains(_)
LeafChains(o) ==
    UNION {IF IsMapping(o[k])
           THEN {<<(<<k>>) \o l[1], l[2]>> : l \in LeafChains(o[k].kids)}
           ELSE {<< <<k>>, o[k] >>} : k \in DOMAIN o}

\* The flat key flattenObject's recursion gives a chain of keys.
RECURSIVE ChainKey(_, _)
ChainKey(prefix, chain) ==
    IF chain = <<>> THEN prefix
    ELSE ChainKey(IF prefix # <<>> THEN Dot(prefix, Head(chain)) ELSE Head(chain),
                  Tail(chain))

FlatInnermost == ObjectsOver(kB :> {Str("x")})
FlatInner ==
    ObjectsOver(kB :> ({Str(t) : t \in Texts} \cup {Arr(1)}
                        \cup {Obj(o) : o \in FlatInnermost})
                @@ kA :> {Str("y")}
                @@ kEmpty :> {Str("x")})
FlatDocs ==
    ObjectsOver(kA :> ({Str("x"), Null, Arr(1)} \cup {Obj(o) : o \in FlatInner})
                @@ kB :> {Str("y"), Null}
                @@ kAB :> {Str("y")}
                @@ kEmpty :> {Str("y"), Obj(kA :> Str("y"))})

----------------------------------------------------------------------------
(* The flattener on its own: flattenObject, then unflattenObject *)

IdleFlatten == obj = EmptyObject /\ flat = <<>> /\ unflat = EmptyObject

IdleDetect ==
    /\ previousFiles = <<>>
    /\ currentFiles = <<>>
    /\ fileName = ""
    /\ fileChanges = NoFileChanges
    /\ changes = NoChanges

\* previous-state.json: whether the file exists, whether its text is JSON,
\* and the documents its text holds.
NoSnapshot == [exists |-> FALSE, valid |-> FALSE, files |-> <<>>]

IdleRun ==
    /\ baseFiles = <<>>
    /\ snapshot = NoSnapshot
    /\ store = [l \in Languages |-> <<>>]
    /\ existingTranslations = <<>>
    /\ contentToTranslate = <<>>
    /\ requests = 0
    /\ newTranslations = <<>>
    /\ mergedTranslations = <<>>

NotDeleted == [thrown |-> FALSE, obj |-> EmptyObject]

NotMerged == [thrown |-> FALSE, obj |-> <<>>, existing |-> <<>>]

IdleRuns == runs = <<>>

NoTool == [kind |-> "none", callable |-> FALSE]

IdleScripts ==
    /\ sourceFiles = <<>>
    /\ fullTranslations = <<>>
    /\ mcpEnv = <<>>
    /\ attempts = <<>>
    /\ mcpTool = NoTool
    /\ mcpResult = "none"
    /\ simText = <<>>
    /\ simLanguage = ""
    /\ simResult = <<>>

IdleMerge ==
    /\ mergeTarget = EmptyObject
    /\ mergeSource = EmptyObject
    /\ mergeResult = EmptyObject
    /\ deletedKey = <<>>
    /\ deleteOutcome = NotDeleted
    /\ mergeExisting = <<>>
    /\ mergeChanges = NoChanges
    /\ mergeOutcome = NotMerged

InitFlatten ==
    /\ pc = "flatten"
    /\ obj \in FlatDocs
    /\ flat = <<>>
    /\ unflat = EmptyObject
    /\ IdleDetect
    /\ IdleRun
    /\ IdleMerge
    /\ IdleRuns
    /\ IdleScripts

Flatten ==
    /\ pc = "flatten"
    /\ UNCHANGED <<mergeVars, runs, scriptVars>>
    /\ flat' = flattenObject(obj, <<>>)
    /\ pc' = "unflatten"
    /\ UNCHANGED <<obj, unflat, detectVars, diskVars, runVars>>

Unflatten ==
    /\ pc = "unflatten"
    /\ UNCHANGED <<mergeVars, runs, scriptVars>>
    /\ LET r == unflattenObject(flat)
       IN /\ unflat' = r.obj
          /\ pc' = IF r.thrown THEN "unflatten-thrown" ELSE "unflattened"
    /\ UNCHANGED <<obj, flat, detectVars, diskVars, runVars>>

NextFlatten == Flatten \/ Unflatten

SpecFlatten == InitFlatten /\ [][NextFlatten]_vars

----------------------------------------------------------------------------
(* The change detector on its own *)

DetectInner == ObjectsOver(kB :> {Str(t) : t \in Texts})

\* The documents of a.json, as parsed by parse number r.
DetectDocs(r) ==
    ObjectsOver(kA :> ({Str("x"), Str("1"), Num("1"), Null, Arr(r)}
                        \cup {Obj(o) : o \in DetectInner})
                @@ kB :> {Str("x")}
                @@ kC :> {Str("x"), Arr(r)}
                @@ kAB :> {Str("x")})

\* The documents of b.json, as parsed by parse number r.
DetectDocsB(r) == {EmptyObject, kA :> Arr(r)}

\* Every set of files: a.json and b.json, each present or not.
FileSets(docsA, docsB) ==
    {[f \in {"a.json"} |-> d] : d \in docsA}
    \cup {[f \in {"b.json"} |-> d] : d \in docsB}
    \cup {("a.json" :> d) @@ ("b.json" :> e) : d \in docsA, e \in docsB}
    \cup {<<>>}

\* The snapshot was parsed from previous-state.json (parse 1), the base
\* files from the files of the base language (parse 2).
InitDetect ==
    /\ pc = "detect"
    /\ previousFiles \in FileSets(DetectDocs(1), {EmptyObject})
    /\ currentFiles \in FileSets(DetectDocs(2), DetectDocsB(2))
    /\ fileName = ""
    /\ fileChanges = NoFileChanges
    /\ changes = NoChanges
    /\ IdleFlatten
    /\ IdleRun
    /\ IdleMerge
    /\ IdleRuns
    /\ IdleScripts

\* detectFileChanges(previousFiles[f], currentFiles[f], f)
DetectFileChanges ==
    /\ pc = "detect"
    /\ UNCHANGED <<mergeVars, runs, scriptVars>>
    /\ \E f \in (DOMAIN previousFiles) \cap (DOMAIN currentFiles) :
           /\ fileName' = f
           /\ fileChanges' = detectFileChanges(previousFiles[f], currentFiles[f])
    /\ pc' = "detected-file"
    /\ UNCHANGED <<previousFiles, currentFiles, changes, flatVars, diskVars,
                   runVars>>

\* detectChanges(previousFiles, currentFiles)
DetectChanges ==
    /\ pc = "detect"
    /\ UNCHANGED <<mergeVars, runs, scriptVars>>
    /\ changes' = detectChanges(previousFiles, currentFiles)
    /\ pc' = "detected"
    /\ UNCHANGED <<previousFiles, currentFiles, fileName, fileChanges, flatVars,
                   diskVars, runVars>>

\* detectChanges(currentFiles, currentFiles)
DetectChangesSelf ==
    /\ pc = "detect"
    /\ UNCHANGED <<mergeVars, runs, scriptVars>>
    /\ changes' = detectChanges(currentFiles, currentFiles)
    /\ pc' = "detected-self"
    /\ UNCHANGED <<previousFiles, currentFiles, fileName, fileChanges, flatVars,
                   diskVars, runVars>>

NextDetect == DetectFileChanges \/ DetectChanges \/ DetectChangesSelf

SpecDetect == InitDetect /\ [][NextDetect]_vars

----------------------------------------------------------------------------
(* One incremental run: translateIncremental, a step for each await *)

\* The documents of the base file a.json.
SourceDocs ==
    ObjectsOver(kA :> ({Str(t) : t \in Texts}
                        \cup {Obj(kB :> Str("x")), Obj(kIdx :> Str("x"))})
                @@ kB :> {Str("x")}
                @@ kAB :> {Str("x")})

\* The snapshots whose text is not JSON: a file cut short while it was
\* written.
CorruptSnapshots ==
    {[exists |-> TRUE, valid |-> FALSE, files |-> [f \in {"a.json"} |-> d]] :
        d \in {kA :> Str("x")}}

\* The documents a translated a.json may hold before the run.
StoredDocs ==
    ObjectsOver(kA :> {Str("old"), Obj(kB :> Str("old")), Obj(kC :> Str("old"))}
                @@ kB :> {Str("old")}
                @@ kAB :> {Str("old2")})

\* The text a faithful translator gives for a source text.
TranslatedText(language, text) ==
    CASE language = "es" /\ text = "x" -> "x-es"
      [] language = "es" /\ text = "y" -> "y-es"
      [] language = "fr" /\ text = "x" -> "x-fr"
      [] language = "fr" /\ text = "y" -> "y-fr"
      [] language = "es" /\ text = "z" -> "z-es"
      [] language = "fr" /\ text = "z" -> "z-fr"
      [] OTHER -> text

\* The faithful translation of a value: the strings translated, the
\* structure kept.
RECURSIVE TranslateValue(_, _)
TranslateValue(language, value) ==
    [kind |-> value.kind,
     v |-> IF value.kind = "str" THEN TranslatedText(language, value.v) ELSE value.v,
     ref |-> IF value.kind = "arr" THEN ParseResponse ELSE 0,
     kids |-> [k \in DOMAIN value.kids |-> TranslateValue(language, value.kids[k])]]

Faithful(language, content) ==
    [f \in DOMAIN content |->
        [k \in DOMAIN content[f] |-> TranslateValue(language, content[f][k])]]

\* What the translation collaborator may answer for one language and the
\* delta `content`: the faithful translation, or for each file of the delta
\* some other document.
LanguageAnswers(language, content) ==
    {Faithful(language, content)}
    \cup {[f \in DOMAIN content |-> d] :
             d \in {kA :> Str("other"), kA :> Obj(EmptyObject),
                    kAB :> Str("other")}}

\* The answers of the collaborator: an object with a property for each
\* language it answered for. It answers for fr faithfully or not at all,
\* or it answers with the empty object.
Answers(content) ==
    {("es" :> e) @@ ("fr" :> Faithful("fr", content)) :
        e \in LanguageAnswers("es", content)}
    \cup {"es" :> Faithful("es", content)}
    \cup {<<>>}

Init ==
    /\ pc = "readBaseFiles"
    /\ baseFiles \in {[f \in {"a.json"} |-> d] : d \in SourceDocs}
    /\ snapshot \in {NoSnapshot} \cup CorruptSnapshots
           \cup {[exists |-> TRUE, valid |-> TRUE,
                  files |-> [f \in {"a.json"} |-> d]] : d \in SourceDocs}
    /\ store \in {("es" :> e) @@ ("fr" :> f) :
                     e \in {<<>>} \cup {[n \in {"a.json"} |-> d] : d \in StoredDocs},
                     f \in {<<>>, [n \in {"a.json"} |-> (kA :> Str("old"))]}}
    /\ existingTranslations = <<>>
    /\ contentToTranslate = <<>>
    /\ requests = 0
    /\ newTranslations = <<>>
    /\ mergedTranslations = <<>>
    /\ IdleFlatten
    /\ IdleDetect
    /\ IdleMerge
    /\ IdleRuns
    /\ IdleScripts

\* line 323: currentFiles = await this.readBaseFiles()
ReadBaseFiles ==
    /\ pc = "readBaseFiles"
    /\ UNCHANGED <<mergeVars, runs, scriptVars>>
    /\ currentFiles' = ReparseFiles(baseFiles, ParseBase)
    /\ pc' = "loadPreviousState"
    /\ UNCHANGED <<previousFiles, fileName, fileChanges, changes, flatVars,
                   diskVars, runVars>>

\* A variant of loadPreviousState that takes the documents of the state
\* file whatever the state of its text.
loadPreviousStateUnguarded(snap) == ReparseFiles(snap.files, ParseSnapshot)

\* loadPreviousState: the parsed state file; {} when fs.access or
\* JSON.parse throws.
loadPreviousState(snap) ==
    IF snap.exists /\ snap.valid
    THEN ReparseFiles(snap.files, ParseSnapshot)
    ELSE <<>>

\* line 326: previousFiles = await this.loadPreviousState()
LoadPreviousState ==
    /\ pc = "loadPreviousState"
    /\ UNCHANGED <<mergeVars, runs, scriptVars>>
    /\ previousFiles' = loadPreviousState(snapshot)
    /\ pc' = "detectChanges"
    /\ UNCHANGED <<currentFiles, fileName, fileChanges, changes, flatVars,
                   diskVars, runVars>>

\* lines 329-331 and 349-351: changes = this.detectChanges(...); without
\* changes the run ends.
RunDetectChanges ==
    /\ pc = "detectChanges"
    /\ UNCHANGED <<mergeVars, runs, scriptVars>>
    /\ LET ch == detectChanges(previousFiles, currentFiles)
       IN /\ changes' = ch
          /\ pc' = IF ch.hasChanges THEN "loadExistingTranslations" ELSE "done"
    /\ UNCHANGED <<previousFiles, currentFiles, fileName, fileChanges, flatVars,
                   diskVars, runVars>>

\* A translated file whose text is not JSON (JSON.parse throws on it),
\* written as a document that no JSON text gives.
NotJson == kEmpty :> [kind |-> "text", v |-> "", ref |-> 0, kids |-> NoKids]

\* A variant of loadExistingTranslations without the test of line 524:
\* every file that parses is loaded.
loadExistingTranslationsUnfiltered(disk) ==
    [l \in Languages |->
        LET files == IF l \in DOMAIN disk
                     THEN ReparseFiles(disk[l], ParseStore)
                     ELSE <<>>
        IN [f \in {n \in DOMAIN files : disk[l][n] # NotJson} |-> files[f]]]

\* loadExistingTranslations: an entry for each target language (line 509),
\* empty when its directory is missing; in it the files of the directory
\* that parse and have a key.
loadExistingTranslations(disk) ==
    [l \in Languages |->
        LET files == IF l \in DOMAIN disk
                     THEN ReparseFiles(disk[l], ParseStore)
                     ELSE <<>>
        IN [f \in {n \in DOMAIN files : /\ disk[l][n] # NotJson
                                        /\ DOMAIN files[n] # {}} |-> files[f]]]

LoadExistingTranslations ==
    /\ pc = "loadExistingTranslations"
    /\ UNCHANGED <<mergeVars, runs, scriptVars>>
    /\ existingTranslations' = loadExistingTranslations(store)
    /\ pc' = "translateChanges"
    /\ UNCHANGED <<contentToTranslate, requests, newTranslations,
                   mergedTranslations, detectVars, flatVars, diskVars>>

\* line 336, translateChanges up to its call of callClaude: the delta is
\* built; an empty delta returns {} without a request.
TranslateChanges ==
    /\ pc = "translateChanges"
    /\ UNCHANGED <<mergeVars, runs, scriptVars>>
    /\ LET r == BuildContent(changes, ReparseFiles(baseFiles, ParseBase))
       IN /\ contentToTranslate' = r.obj
          /\ \/ /\ r.thrown
                /\ pc' = "failed"
                /\ UNCHANGED <<requests, newTranslations>>
             \/ /\ ~r.thrown /\ DOMAIN r.obj = {}
                /\ newTranslations' = <<>>
                /\ pc' = "mergeTranslations"
                /\ UNCHANGED requests
             \/ /\ ~r.thrown /\ DOMAIN r.obj # {}
                /\ requests' = requests + 1
                /\ pc' = "callClaude"
                /\ UNCHANGED newTranslations
    /\ UNCHANGED <<existingTranslations, mergedTranslations, detectVars,
                   flatVars, diskVars>>

\* callClaude returns the parsed answer of the collaborator.
CallClaudeReturns ==
    /\ pc = "callClaude"
    /\ UNCHANGED <<mergeVars, runs, scriptVars>>
    /\ newTranslations' \in Answers(contentToTranslate)
    /\ pc' = "mergeTranslations"
    /\ UNCHANGED <<existingTranslations, contentToTranslate, requests,
                   mergedTranslations, detectVars, flatVars, diskVars>>

\* A variant of CallClaudeThrows: a failed request is sent once more
\* instead of ending the run.
CallClaudeThrowsRetries ==
    /\ pc = "callClaude"
    /\ UNCHANGED <<mergeVars, runs, scriptVars>>
    /\ IF requests < 2
       THEN pc' = "callClaude" /\ requests' = requests + 1
       ELSE pc' = "failed" /\ UNCHANGED requests
    /\ UNCHANGED <<existingTranslations, contentToTranslate, newTranslations,
                   mergedTranslations, detectVars, flatVars, diskVars>>

\* callClaude throws: the request failed or its answer is not JSON.
CallClaudeThrows ==
    /\ pc = "callClaude"
    /\ UNCHANGED <<mergeVars, runs, scriptVars>>
    /\ pc' = "failed"
    /\ UNCHANGED <<runVars, detectVars, flatVars, diskVars>>

\* line 339: mergeTranslations returns the merged object, or throws.
MergeTranslations ==
    /\ pc = "mergeTranslations"
    /\ UNCHANGED <<mergeVars, runs, scriptVars>>
    /\ LET r == mergeTranslations(existingTranslations, newTranslations, changes)
       IN /\ existingTranslations' = r.existing
          /\ IF r.thrown
             THEN pc' = "failed" /\ UNCHANGED mergedTranslations
             ELSE pc' = "saveTranslations" /\ mergedTranslations' = r.obj
    /\ UNCHANGED <<contentToTranslate, requests, newTranslations, detectVars,
                   flatVars, diskVars>>

\* The writes of saveTranslations in their order: for each target language
\* of the merged object, each of its files.
WriteOrder(translations) ==
    LET FilesOf(l) ==
            Map(FileNames(translations[l]), LAMBDA f : <<l, f>>)
        Those[i \in 0..Len(targetLanguages)] ==
            IF i = 0 THEN <<>>
            ELSE Those[i - 1] \o
                 (IF targetLanguages[i] \in DOMAIN translations
                  THEN FilesOf(targetLanguages[i]) ELSE <<>>)
    IN Those[Len(targetLanguages)]

\* A variant of WriteFiles that opens each file for creation only: a file
\* that is already on disk is left as it is.
RECURSIVE WriteFilesIfAbsent(_, _, _)
WriteFilesIfAbsent(disk, translations, writes) ==
    IF writes = <<>> THEN disk
    ELSE LET l == Head(writes)[1]
             f == Head(writes)[2]
         IN WriteFilesIfAbsent(
                [disk EXCEPT ![l] = @ @@ (f :> PlainDoc(translations[l][f]))],
                translations, Tail(writes))

\* fs.writeFile(filePath, JSON.stringify(content, null, 2)) for each of the
\* writes, on the files of the disk.
RECURSIVE WriteFiles(_, _, _)
WriteFiles(disk, translations, writes) ==
    IF writes = <<>> THEN disk
    ELSE LET l == Head(writes)[1]
             f == Head(writes)[2]
         IN WriteFiles([disk EXCEPT ![l] = (f :> PlainDoc(translations[l][f])) @@ @],
                       translations, Tail(writes))

\* line 342: every file of every target language of the merged result is
\* written.
SaveTranslations ==
    /\ pc = "saveTranslations"
    /\ UNCHANGED <<mergeVars, runs, scriptVars>>
    /\ store' = WriteFiles(store, mergedTranslations, WriteOrder(mergedTranslations))
    /\ pc' = "saveCurrentState"
    /\ UNCHANGED <<baseFiles, snapshot, runVars, detectVars, flatVars>>

\* A variant of SaveTranslationsThrows in which the error of the write is
\* caught and logged inside saveTranslations and the run goes on.
SaveTranslationsThrowsGoesOn ==
    /\ pc = "saveTranslations"
    /\ UNCHANGED <<mergeVars, runs, scriptVars>>
    /\ LET writes == WriteOrder(mergedTranslations)
       IN \E n \in 0..(IF writes = <<>> THEN 0 ELSE Len(writes) - 1) :
              store' = WriteFiles(store, mergedTranslations, SubSeq(writes, 1, n))
    /\ pc' = "saveCurrentState"
    /\ UNCHANGED <<baseFiles, snapshot, runVars, detectVars, flatVars>>

\* line 342: fs.mkdir or one of the fs.writeFile calls throws (disk full,
\* no permission), after the n writes before it were made; lines 353-356:
\* the error is caught and the process exits with code 1.
SaveTranslationsThrows ==
    /\ pc = "saveTranslations"
    /\ UNCHANGED <<mergeVars, runs, scriptVars>>
    /\ LET writes == WriteOrder(mergedTranslations)
       IN \E n \in 0..(IF writes = <<>> THEN 0 ELSE Len(writes) - 1) :
              store' = WriteFiles(store, mergedTranslations, SubSeq(writes, 1, n))
    /\ pc' = "failed"
    /\ UNCHANGED <<baseFiles, snapshot, runVars, detectVars, flatVars>>

\* line 345
SaveCurrentState ==
    /\ pc = "saveCurrentState"
    /\ UNCHANGED <<mergeVars, runs, scriptVars>>
    /\ snapshot' = [exists |-> TRUE, valid |-> TRUE,
                    files |-> [f \in DOMAIN currentFiles |-> PlainDoc(currentFiles[f])]]
    /\ pc' = "done"
    /\ UNCHANGED <<baseFiles, store, runVars, detectVars, flatVars>>

\* line 345: fs.mkdir or fs.writeFile of saveCurrentState throws; lines
\* 353-356: the error is caught and the process exits with code 1. The
\* state file is left as it was or is cut short.
SaveCurrentStateThrows ==
    /\ pc = "saveCurrentState"
    /\ UNCHANGED <<mergeVars, runs, scriptVars>>
    /\ snapshot' \in {snapshot, [snapshot EXCEPT !.exists = TRUE, !.valid = FALSE]}
    /\ pc' = "failed"
    /\ UNCHANGED <<baseFiles, store, runVars, detectVars, flatVars>>

Next ==
    \/ ReadBaseFiles
    \/ LoadPreviousState
    \/ RunDetectChanges
    \/ LoadExistingTranslations
    \/ TranslateChanges
    \/ CallClaudeReturns
    \/ CallClaudeThrows
    \/ MergeTranslations
    \/ SaveTranslations
    \/ SaveTranslationsThrows
    \/ SaveCurrentState
    \/ SaveCurrentStateThrows

Spec == Init /\ [][Next]_vars

----------------------------------------------------------------------------
(* The merger's two helpers on their own: deepMerge and deleteNestedKey *)

\* The documents of a translated file: at a a string, a number, null, an
\* array, or a mapping up to two levels deep.
TargetDocs ==
    ObjectsOver(kA :> ({Str("old"), Num("1"), Null, Arr(ParseClone)}
                        \cup {Obj(o) : o \in {EmptyObject,
                                              kB :> Str("old"),
                                              (kB :> Str("old")) @@ (kC :> Str("old")),
                                              kB :> Obj(kC :> Str("old")),
                                              kB :> Arr(ParseClone)}})
                @@ kB :> {Str("old")})

\* The documents the collaborator may return for the file.
ReturnedDocs ==
    ObjectsOver(kA :> ({Str("new"), Null, Arr(ParseResponse)}
                        \cup {Obj(o) : o \in {EmptyObject,
                                              kB :> Str("new"),
                                              kB :> Obj(kC :> Str("new")),
                                              kB :> Null}})
                @@ kC :> {Str("new")})

\* The dotted keys deleteNestedKey is called with: a, b, c, a.b, a.c, a.0,
\* a.b.c, a.b.0, c.b.
DeletedKeys ==
    {kA, kB, kC, kAB, Dot(kA, kC), Dot(kA, kIdx), Dot(kAB, kC),
     Dot(kAB, kIdx), Dot(kC, kB)}

\* The existingTranslations objects a caller may pass: each of the target
\* languages missing, without files, or with a.json.
ExistingObjects ==
    ObjectsOver([l \in Languages |->
        {[kind |-> "files", v |-> "", ref |-> 0, kids |-> files] :
            files \in {<<>>,
                       "a.json" :> (kA :> Obj(kB :> Str("old"))),
                       "a.json" :> ((kA :> Arr(ParseStore)) @@ (kB :> Null))}}])

\* The change sets without a deleted path: no change at all, a new file,
\* a modified file with one new key.
ChangesWithoutDeletions ==
    {NoChanges,
     [NoChanges EXCEPT !.hasChanges = TRUE, !.newFiles = <<"a.json">>],
     [hasChanges |-> TRUE, newFiles |-> <<>>, modifiedFiles |-> <<"a.json">>,
      newKeys |-> ("a.json" :> <<[key |-> kC, value |-> Str("x")]>>),
      modifiedKeys |-> ("a.json" :> <<>>),
      deletedKeys |-> ("a.json" :> <<>>)]}

InitMerge ==
    /\ pc = "merge"
    /\ mergeExisting = <<>>
    /\ mergeChanges = NoChanges
    /\ mergeOutcome = NotMerged
    /\ mergeTarget \in TargetDocs
    /\ mergeSource \in ReturnedDocs
    /\ mergeResult = EmptyObject
    /\ deletedKey \in DeletedKeys
    /\ deleteOutcome = NotDeleted
    /\ IdleFlatten
    /\ IdleDetect
    /\ IdleRun
    /\ IdleRuns
    /\ IdleScripts

\* deepMerge(mergeTarget, mergeSource)
DeepMerge ==
    /\ pc = "merge"
    /\ mergeResult' = deepMerge(mergeTarget, mergeSource)
    /\ pc' = "deep-merged"
    /\ UNCHANGED <<mergeTarget, mergeSource, deletedKey, deleteOutcome,
                   mergeExisting, mergeChanges, mergeOutcome, flatVars,
                   detectVars, diskVars, runVars, runs, scriptVars>>

\* deleteNestedKey(mergeTarget, deletedKey)
DeleteNestedKey ==
    /\ pc = "merge"
    /\ deleteOutcome' = deleteNestedKey(mergeTarget, deletedKey)
    /\ pc' = "deleted"
    /\ UNCHANGED <<mergeTarget, mergeSource, mergeResult, deletedKey,
                   mergeExisting, mergeChanges, mergeOutcome, flatVars,
                   detectVars, diskVars, runVars, runs, scriptVars>>

\* mergeTranslations(existing, {}, changes) for an object and a change set
\* without deletions.
MergeEmptyDelta ==
    /\ pc = "merge"
    /\ \E e \in ExistingObjects : \E ch \in ChangesWithoutDeletions :
           /\ mergeExisting' = [l \in DOMAIN e |-> e[l].kids]
           /\ mergeChanges' = ch
           /\ mergeOutcome' = mergeTranslations([l \in DOMAIN e |-> e[l].kids],
                                                <<>>, ch)
    /\ pc' = "merged-empty"
    /\ UNCHANGED <<mergeTarget, mergeSource, mergeResult, deletedKey,
                   deleteOutcome, flatVars, detectVars, diskVars, runVars, runs, scriptVars>>

NextMerge == DeepMerge \/ DeleteNestedKey \/ MergeEmptyDelta

SpecMerge == InitMerge /\ [][NextMerge]_vars

----------------------------------------------------------------------------
(* Two runs of translateIncremental on one disk, as two processes started  *)
(* at any time: side by side, or one after the other has ended. Each run   *)
(* takes a step for each statement of translateIncremental and for each    *)
(* file saveTranslations writes. The runs meet no failure of the file      *)
(* system or of the request.                                               *)

RunIds == {1, 2}

OtherRun(i) == 3 - i

\* The locals of a run before its first statement. `after` records, when
\* the run reads the base files, whether the other run had ended by then.
NewRun ==
    [pc |-> "readBaseFiles", after |-> FALSE,
     currentFiles |-> <<>>, previousFiles |-> <<>>, changes |-> NoChanges,
     existingTranslations |-> <<>>, contentToTranslate |-> <<>>,
     requests |-> 0, newTranslations |-> <<>>, mergedTranslations |-> <<>>,
     writes |-> 0]

\* The documents of the base file a.json: with an array leaf, with a null
\* leaf, with a plain leaf, with a nested mapping.
RunSourceDocs ==
    {(kA :> Arr(0)) @@ (kB :> Str("x")),
     (kA :> Null) @@ (kB :> Str("x")),
     kB :> Str("x"),
     kA :> Obj(kB :> Str("x"))}

\* The state files: none; one of an older a.json; two that also hold
\* b.json, a document that is no longer among the base files, with an
\* older a.json and with one of the a.json of the base files.
RunSnapshots ==
    {NoSnapshot,
     [exists |-> TRUE, valid |-> TRUE, files |-> "a.json" :> (kB :> Str("y"))],
     [exists |-> TRUE, valid |-> TRUE,
      files |-> ("a.json" :> (kB :> Str("y"))) @@ ("b.json" :> (kA :> Str("x")))],
     [exists |-> TRUE, valid |-> TRUE,
      files |-> ("a.json" :> (kB :> Str("x"))) @@ ("b.json" :> (kA :> Str("x")))]}

\* The translated files: none, or for es a.json and b.json and for fr
\* b.json, as translated before b.json was removed from the base files.
RunStores ==
    {[l \in Languages |-> <<>>],
     ("es" :> (("a.json" :> (kB :> Str("old"))) @@ ("b.json" :> (kA :> Str("old")))))
     @@ ("fr" :> ("b.json" :> (kA :> Arr(0))))}

\* The answers of the collaborator to a run: faithful for both languages,
\* or for es some other document.
RunAnswers(content) ==
    {[l \in Languages |-> Faithful(l, content)],
     ("es" :> [f \in DOMAIN content |-> (kA :> Str("other"))])
        @@ ("fr" :> Faithful("fr", content))}

InitRuns ==
    /\ pc = "runs"
    /\ runs = [i \in RunIds |-> NewRun]
    /\ baseFiles \in {[f \in {"a.json"} |-> d] : d \in RunSourceDocs}
    /\ snapshot \in RunSnapshots
    /\ store \in RunStores
    /\ existingTranslations = <<>>
    /\ contentToTranslate = <<>>
    /\ requests = 0
    /\ newTranslations = <<>>
    /\ mergedTranslations = <<>>
    /\ IdleFlatten
    /\ IdleDetect
    /\ IdleMerge
    /\ IdleScripts

\* What a step of a run leaves alone besides the disk.
RunFrame == UNCHANGED <<pc, flatVars, detectVars, runVars, mergeVars, scriptVars>>

\* line 323
RunReadBaseFiles(i) ==
    /\ runs[i].pc = "readBaseFiles"
    /\ runs' = [runs EXCEPT ![i] =
                   [@ EXCEPT !.currentFiles = ReparseFiles(baseFiles, ParseBase),
                             !.after = (runs[OtherRun(i)].pc = "done"),
                             !.pc = "loadPreviousState"]]
    /\ UNCHANGED diskVars
    /\ RunFrame

\* line 326
RunLoadPreviousState(i) ==
    /\ runs[i].pc = "loadPreviousState"
    /\ runs' = [runs EXCEPT ![i] =
                   [@ EXCEPT !.previousFiles = loadPreviousState(snapshot),
                             !.pc = "detectChanges"]]
    /\ UNCHANGED diskVars
    /\ RunFrame

\* lines 329-331 and 349-351
RunDetect(i) ==
    /\ runs[i].pc = "detectChanges"
    /\ LET ch == detectChanges(runs[i].previousFiles, runs[i].currentFiles)
       IN runs' = [runs EXCEPT ![i] =
                      [@ EXCEPT !.changes = ch,
                                !.pc = IF ch.hasChanges
                                       THEN "loadExistingTranslations"
                                       ELSE "done"]]
    /\ UNCHANGED diskVars
    /\ RunFrame

\* line 333
RunLoadExisting(i) ==
    /\ runs[i].pc = "loadExistingTranslations"
    /\ runs' = [runs EXCEPT ![i] =
                   [@ EXCEPT !.existingTranslations = loadExistingTranslations(store),
                             !.pc = "translateChanges"]]
    /\ UNCHANGED diskVars
    /\ RunFrame

\* line 336, translateChanges up to its call of callClaude
RunTranslateChanges(i) ==
    /\ runs[i].pc = "translateChanges"
    /\ LET r == BuildContent(runs[i].changes, ReparseFiles(baseFiles, ParseBase))
       IN runs' = [runs EXCEPT ![i] =
                      [@ EXCEPT !.contentToTranslate = r.obj,
                                !.requests = IF ~r.thrown /\ DOMAIN r.obj # {}
                                             THEN @ + 1 ELSE @,
                                !.pc = IF r.thrown THEN "failed"
                                       ELSE IF DOMAIN r.obj = {}
                                            THEN "mergeTranslations"
                                            ELSE "callClaude"]]
    /\ UNCHANGED diskVars
    /\ RunFrame

\* callClaude returns the parsed answer
RunCallClaudeReturns(i) ==
    /\ runs[i].pc = "callClaude"
    /\ \E answer \in RunAnswers(runs[i].contentToTranslate) :
           runs' = [runs EXCEPT ![i] =
                       [@ EXCEPT !.newTranslations = answer,
                                 !.pc = "mergeTranslations"]]
    /\ UNCHANGED diskVars
    /\ RunFrame

\* line 339
RunMergeTranslations(i) ==
    /\ runs[i].pc = "mergeTranslations"
    /\ LET r == mergeTranslations(runs[i].existingTranslations,
                                  runs[i].newTranslations, runs[i].changes)
       IN runs' = [runs EXCEPT ![i] =
                      [@ EXCEPT !.existingTranslations = r.existing,
                                !.mergedTranslations =
                                    IF r.thrown THEN @ ELSE r.obj,
                                !.pc = IF r.thrown THEN "failed"
                                       ELSE "saveTranslations"]]
    /\ UNCHANGED diskVars
    /\ RunFrame

\* line 342, one await fs.writeFile of saveTranslations: the next file of
\* the merged result is written; after the last one saveTranslations
\* returns.
RunWriteFile(i) ==
    /\ runs[i].pc = "saveTranslations"
    /\ LET merged == runs[i].mergedTranslations
           writes == WriteOrder(merged)
           n == runs[i].writes
       IN IF writes = <<>>
          THEN /\ runs' = [runs EXCEPT ![i] = [@ EXCEPT !.pc = "saveCurrentState"]]
               /\ UNCHANGED store
          ELSE /\ store' = WriteFiles(store, merged, <<writes[n + 1]>>)
               /\ runs' = [runs EXCEPT ![i] =
                              [@ EXCEPT !.writes = n + 1,
                                        !.pc = IF n + 1 = Len(writes)
                                               THEN "saveCurrentState"
                                               ELSE "saveTranslations"]]
    /\ UNCHANGED <<baseFiles, snapshot>>
    /\ RunFrame

\* line 345
RunSaveCurrentState(i) ==
    /\ runs[i].pc = "saveCurrentState"
    /\ snapshot' = [exists |-> TRUE, valid |-> TRUE,
                    files |-> [f \in DOMAIN runs[i].currentFiles |->
                                  PlainDoc(runs[i].currentFiles[f])]]
    /\ runs' = [runs EXCEPT ![i] = [@ EXCEPT !.pc = "done"]]
    /\ UNCHANGED <<baseFiles, store>>
    /\ RunFrame

NextRuns ==
    \E i \in RunIds :
        \/ RunReadBaseFiles(i)
        \/ RunLoadPreviousState(i)
        \/ RunDetect(i)
        \/ RunLoadExisting(i)
        \/ RunTranslateChanges(i)
        \/ RunCallClaudeReturns(i)
        \/ RunMergeTranslations(i)
        \/ RunWriteFile(i)
        \/ RunSaveCurrentState(i)

SpecRuns == InitRuns /\ [][NextRuns]_vars

----------------------------------------------------------------------------
(* loadExistingTranslations on its own *)

\* The translated a.json files: without keys, not JSON, with a leaf, with
\* one key whose mapping is empty, with an array and a null.
LoadDocs ==
    {EmptyObject, NotJson, kA :> Str("old"), kA :> Obj(EmptyObject),
     (kA :> Arr(0)) @@ (kB :> Null)}

\* The translated b.json files.
LoadDocsB == {EmptyObject, NotJson, kB :> Obj(kC :> Str("old"))}

\* The directories of the target languages: each missing, or with any of
\* the files.
LoadDisks ==
    ObjectsOver([l \in Languages |->
        {[kind |-> "dir", v |-> "", ref |-> 0, kids |-> files] :
            files \in FileSets(LoadDocs, LoadDocsB)}])

InitLoad ==
    /\ pc = "load"
    /\ \E d \in LoadDisks : store = [l \in DOMAIN d |-> d[l].kids]
    /\ baseFiles = <<>>
    /\ snapshot = NoSnapshot
    /\ existingTranslations = <<>>
    /\ contentToTranslate = <<>>
    /\ requests = 0
    /\ newTranslations = <<>>
    /\ mergedTranslations = <<>>
    /\ IdleFlatten
    /\ IdleDetect
    /\ IdleMerge
    /\ IdleRuns
    /\ IdleScripts

\* loadExistingTranslations()
LoadExisting ==
    /\ pc = "load"
    /\ existingTranslations' = loadExistingTranslations(store)
    /\ pc' = "loaded"
    /\ UNCHANGED <<contentToTranslate, requests, newTranslations,
                   mergedTranslations, flatVars, detectVars, diskVars,
                   mergeVars, runs, scriptVars>>

NextLoad == LoadExisting

SpecLoad == InitLoad /\ [][NextLoad]_vars

----------------------------------------------------------------------------
(* The full translator: class IntelligentTranslationProcessorClaude of the *)
(* same file, translateFiles                                               *)

\* The value of a language in a parsed response: an object of files.
Files(files) == [kind |-> "files", v |-> "", ref |-> 0, kids |-> files]

\* A language the response may hold that is not a target language.
UnexpectedLanguage == "xx"

\* Object.keys order of a parsed response.
ResponseOrder == targetLanguages \o <<UnexpectedLanguage>>

\* The parsed responses for the source files: each language missing, null,
\* an object without files, or the faithful translation of the files.
Responses(files) ==
    ObjectsOver([l \in SeqSet(ResponseOrder) |->
                    {Null, Files(<<>>), Files(Faithful(l, files))}])

\* A variant of ValidateLanguages that stops after the first target
\* language.
ValidateFirstLanguage(parsed) ==
    targetLanguages[1] \in DOMAIN parsed /\ Truthy(parsed[targetLanguages[1]])

\* for (const lang of expectedLanguages) if (!parsed[lang]) throw ...: TRUE
\* when nothing is thrown (lines 163-170, 213-218 and 235-239).
ValidateLanguages(parsed) ==
    \A i \in 1..Len(targetLanguages) :
        targetLanguages[i] \in DOMAIN parsed /\ Truthy(parsed[targetLanguages[i]])

\* The writes of the full saveTranslations in their order: for each
\* language of the response that is a target language, each of its files.
FullWriteOrder(parsed) ==
    LET included == SelectSeq(ResponseOrder,
                        LAMBDA l : l \in DOMAIN parsed /\ l \in Languages)
        FilesOf(l) == Map(FileNames(parsed[l].kids), LAMBDA f : <<l, f>>)
        Those[i \in 0..Len(included)] ==
            IF i = 0 THEN <<>> ELSE Those[i - 1] \o FilesOf(included[i])
    IN Those[Len(included)]

\* fs.mkdir(langDir) and fs.writeFile(filePath, JSON.stringify(content))
\* for each of the writes.
RECURSIVE FullWriteFiles(_, _, _)
FullWriteFiles(disk, parsed, writes) ==
    IF writes = <<>> THEN disk
    ELSE LET l == Head(writes)[1]
             f == Head(writes)[2]
             old == IF l \in DOMAIN disk THEN disk[l] ELSE <<>>
         IN FullWriteFiles(
                (l :> ((f :> PlainDoc(parsed[l].kids[f])) @@ old)) @@ disk,
                parsed, Tail(writes))

\* The source documents of the full translator and the translated files
\* already on disk.
FullSourceDocs == {kA :> Str("x"), (kA :> Obj(kB :> Str("y"))) @@ (kB :> Str("x"))}

FullStores ==
    {[l \in Languages |-> <<>>],
     [l \in Languages |-> "a.json" :> (kA :> Str("old"))]}

InitFull ==
    /\ pc = "full-readBaseFiles"
    /\ baseFiles \in {<<>>} \cup {[f \in {"a.json"} |-> d] : d \in FullSourceDocs}
    /\ store \in FullStores
    /\ snapshot = NoSnapshot
    /\ sourceFiles = <<>>
    /\ fullTranslations = <<>>
    /\ existingTranslations = <<>>
    /\ contentToTranslate = <<>>
    /\ requests = 0
    /\ newTranslations = <<>>
    /\ mergedTranslations = <<>>
    /\ mcpEnv = <<>>
    /\ attempts = <<>>
    /\ mcpTool = NoTool
    /\ mcpResult = "none"
    /\ simText = <<>>
    /\ simLanguage = ""
    /\ simResult = <<>>
    /\ IdleFlatten
    /\ IdleDetect
    /\ IdleMerge
    /\ IdleRuns

\* What a step of the full translator leaves alone.
FullFrame ==
    UNCHANGED <<baseFiles, snapshot, flatVars, detectVars, runVars, mergeVars,
                runs, mcpVars, simVars>>

\* line 35, readBaseFiles: throws when the base directory has no JSON file.
FullReadBaseFiles ==
    /\ pc = "full-readBaseFiles"
    /\ IF DOMAIN baseFiles = {}
       THEN pc' = "failed" /\ UNCHANGED sourceFiles
       ELSE pc' = "full-callClaude" /\ sourceFiles' = ReparseFiles(baseFiles, ParseBase)
    /\ UNCHANGED <<fullTranslations, store>>
    /\ FullFrame

\* line 38, callClaude: the response is parsed and validated; a response
\* that lacks a target language is thrown as an error, which ends the
\* run (lines 47-50).
FullCallClaude ==
    /\ pc = "full-callClaude"
    /\ \E parsed \in Responses(sourceFiles) :
           /\ fullTranslations' = parsed
           /\ pc' = IF ValidateLanguages(parsed)
                    THEN "full-saveTranslations" ELSE "failed"
    /\ UNCHANGED <<sourceFiles, store>>
    /\ FullFrame

\* line 38: the request fails or its answer is not JSON.
FullCallClaudeThrows ==
    /\ pc = "full-callClaude"
    /\ pc' = "failed"
    /\ UNCHANGED <<sourceFiles, fullTranslations, store>>
    /\ FullFrame

\* line 41, saveTranslations: validates the languages again, then writes.
FullSaveTranslations ==
    /\ pc = "full-saveTranslations"
    /\ IF ValidateLanguages(fullTranslations)
       THEN /\ store' = FullWriteFiles(store, fullTranslations,
                                       FullWriteOrder(fullTranslations))
            /\ pc' = "done"
       ELSE pc' = "failed" /\ UNCHANGED store
    /\ UNCHANGED <<sourceFiles, fullTranslations>>
    /\ FullFrame

\* line 41: fs.mkdir or one of the fs.writeFile calls throws after the n
\* writes before it were made.
FullSaveTranslationsThrows ==
    /\ pc = "full-saveTranslations"
    /\ ValidateLanguages(fullTranslations)
    /\ LET writes == FullWriteOrder(fullTranslations)
       IN \E n \in 0..(IF writes = <<>> THEN 0 ELSE Len(writes) - 1) :
              store' = FullWriteFiles(store, fullTranslations, SubSeq(writes, 1, n))
    /\ pc' = "failed"
    /\ UNCHANGED <<sourceFiles, fullTranslations>>
    /\ FullFrame

NextFull ==
    \/ FullReadBaseFiles
    \/ FullCallClaude
    \/ FullCallClaudeThrows
    \/ FullSaveTranslations
    \/ FullSaveTranslationsThrows

SpecFull == InitFull /\ [][NextFull]_vars

----------------------------------------------------------------------------
(* The MCP processor: scripts/process-translation-claude.js, class         *)
(* MCPTypeScriptProcessor, process() up to processMCPResults               *)

\* What is installed beside the script:
\*   baseDir   languages/en-US exists
\*   compiled  main.js beside main.ts: "missing"; "broken", its import
\*             throws; "plain", it imports and exports what main.ts exports,
\*             which is nothing; "exports", some other main.js that exports
\*             localizationTranslationTool
\*   tsx       npx tsx main.ts --check succeeds
\*   source    main.ts can be read
McpEnvs ==
    [baseDir : BOOLEAN, compiled : {"missing", "broken", "plain", "exports"},
     tsx : BOOLEAN, source : BOOLEAN]

\* How a call of the tool may end: a result with success, a result
\* without, or an error.
ToolOutcomes == {"success", "no-success", "thrown"}

InitMcp ==
    /\ pc = "mcp-verify"
    /\ mcpEnv \in McpEnvs
    /\ attempts = <<>>
    /\ mcpTool = NoTool
    /\ mcpResult = "none"
    /\ sourceFiles = <<>>
    /\ fullTranslations = <<>>
    /\ simText = <<>>
    /\ simLanguage = ""
    /\ simResult = <<>>
    /\ IdleFlatten
    /\ IdleDetect
    /\ IdleRun
    /\ IdleMerge
    /\ IdleRuns

\* What a step of the MCP processor leaves alone.
McpFrame ==
    UNCHANGED <<mcpEnv, flatVars, detectVars, diskVars, runVars, mergeVars,
                runs, fullVars, simVars>>

\* verifyProjectStructure: throws when the base directory is missing; a
\* missing main.ts is only logged.
McpVerify ==
    /\ pc = "mcp-verify"
    /\ pc' = IF mcpEnv.baseDir THEN "mcp-option1" ELSE "failed"
    /\ UNCHANGED <<attempts, mcpTool, mcpResult>>
    /\ McpFrame

\* loadMCPFromTypeScript, option 1: fs.access(compiledPath) and
\* import(compiledPath); the module itself is returned.
McpOption1 ==
    /\ pc = "mcp-option1"
    /\ attempts' = Append(attempts, 1)
    /\ IF mcpEnv.compiled \in {"plain", "exports"}
       THEN /\ mcpTool' = [kind |-> "module",
                           callable |-> mcpEnv.compiled = "exports"]
            /\ pc' = "mcp-execute"
       ELSE /\ pc' = "mcp-option2"
            /\ UNCHANGED mcpTool
    /\ UNCHANGED mcpResult
    /\ McpFrame

\* option 2: execSync(`npx tsx ${mcpFile} --check`), then createTSXWrapper
McpOption2 ==
    /\ pc = "mcp-option2"
    /\ attempts' = Append(attempts, 2)
    /\ IF mcpEnv.tsx
       THEN /\ mcpTool' = [kind |-> "tsx-wrapper", callable |-> TRUE]
            /\ pc' = "mcp-execute"
       ELSE /\ pc' = "mcp-option3"
            /\ UNCHANGED mcpTool
    /\ UNCHANGED mcpResult
    /\ McpFrame

\* option 3: fs.readFile(mcpFile), then createTSWrapper; when it fails too,
\* 'All loading options failed' is thrown.
McpOption3 ==
    /\ pc = "mcp-option3"
    /\ attempts' = Append(attempts, 3)
    /\ IF mcpEnv.source
       THEN /\ mcpTool' = [kind |-> "ts-wrapper", callable |-> TRUE]
            /\ pc' = "mcp-execute"
       ELSE /\ pc' = "mcp-manual"
            /\ UNCHANGED mcpTool
    /\ UNCHANGED mcpResult
    /\ McpFrame

\* loadTypeScriptMCP, its catch: createManualWrapper
McpManualWrapper ==
    /\ pc = "mcp-manual"
    /\ mcpTool' = [kind |-> "manual-wrapper", callable |-> TRUE]
    /\ pc' = "mcp-execute"
    /\ UNCHANGED <<attempts, mcpResult>>
    /\ McpFrame

\* executeMCPTool: mcpTool.localizationTranslationTool(mcpParams); the call
\* of a property that is not a function throws a TypeError.
McpExecute ==
    /\ pc = "mcp-execute"
    /\ IF mcpTool.callable
       THEN \E outcome \in ToolOutcomes :
                /\ mcpResult' = outcome
                /\ pc' = IF outcome = "thrown" THEN "failed" ELSE "mcp-process"
       ELSE mcpResult' = "TypeError" /\ pc' = "failed"
    /\ UNCHANGED <<attempts, mcpTool>>
    /\ McpFrame

\* processMCPResults: throws unless mcpResult.success
McpProcessResults ==
    /\ pc = "mcp-process"
    /\ pc' = IF mcpResult = "success" THEN "done" ELSE "failed"
    /\ UNCHANGED <<attempts, mcpTool, mcpResult>>
    /\ McpFrame

NextMcp ==
    \/ McpVerify
    \/ McpOption1
    \/ McpOption2
    \/ McpOption3
    \/ McpManualWrapper
    \/ McpExecute
    \/ McpProcessResults

SpecMcp == InitMcp /\ [][NextMcp]_vars

----------------------------------------------------------------------------
(* The simulation: scripts/process-translations.js, intelligentSimulation  *)
(* and translateString                                                     *)

\* A text is a sequence of words, separated by single spaces.
MaxWords == 2

SimWords == {"Home", "home", "Contact", "Save", "Yes", "OK"}

SimTexts == UNION {[1..n -> SimWords] : n \in 1..MaxWords}

\* The languages whose dictionaries are modelled.
SimLanguages == <<"es", "fr">>

\* String.prototype.length of a word
WordLength(w) ==
    CASE w \in {"Home", "home", "Save"} -> 4
      [] w = "Contact" -> 7
      [] w = "Yes" -> 3
      [] w = "OK" -> 2

RECURSIVE TextLength(_)
\* text.length: the words and the spaces between them
TextLength(text) ==
    IF text = <<>> THEN 0
    ELSE IF Len(text) = 1 THEN WordLength(text[1])
    ELSE WordLength(text[1]) + 1 + TextLength(Tail(text))

\* String.prototype.toLowerCase and toUpperCase
toLowerCase(w) ==
    CASE w = "Home" -> "home"
      [] w = "Contact" -> "contact"
      [] w = "Save" -> "save"
      [] w = "Yes" -> "yes"
      [] w = "OK" -> "ok"
      [] OTHER -> w

toUpperCase(w) ==
    CASE w = "es" -> "ES"
      [] w = "fr" -> "FR"
      [] OTHER -> w

\* The entries of a language's dictionary, in the order of the literal;
\* the one-word entries 'Home' and 'Contact'.
DictionaryEntries(language) ==
    CASE language = "es" -> << <<"Home", "Inicio">>, <<"Contact", "Contacto">> >>
      [] language = "fr" -> << <<"Home", "Accueil">>, <<"Contact", "Contact">> >>

\* getTranslationDictionaries(): an object literal, so every call makes new
\* objects; call is the number of the call and is the objects' identity.
getTranslationDictionaries(call) ==
    [l \in {SimLanguages[i] : i \in 1..Len(SimLanguages)} |->
        [language |-> l, call |-> call, entries |-> DictionaryEntries(l)]]

\* a === b for two dictionary objects
SameDictionary(a, b) == a.language = b.language /\ a.call = b.call

\* text.replace(new RegExp(`\\b${english}\\b`, 'gi'), translation)
ReplaceWord(text, english, translation) ==
    [i \in 1..Len(text) |->
        IF toLowerCase(text[i]) = toLowerCase(english) THEN translation
        ELSE text[i]]

RECURSIVE ReplaceAll(_, _)
\* the loop over Object.entries(dictionary)
ReplaceAll(text, entries) ==
    IF entries = <<>> THEN text
    ELSE ReplaceAll(ReplaceWord(text, entries[1][1], entries[1][2]),
                    Tail(entries))

RECURSIVE FindLanguage(_, _, _)
\* Object.keys(this.getTranslationDictionaries()).find(lang =>
\*     this.getTranslationDictionaries()[lang] === dictionary):
\* the predicate makes a new call for every language it looks at.
FindLanguage(keys, call, dictionary) ==
    IF keys = <<>> THEN "undefined"
    ELSE IF SameDictionary(getTranslationDictionaries(call)[keys[1]], dictionary)
    THEN keys[1]
    ELSE FindLanguage(Tail(keys), call + 1, dictionary)

\* translateString(text, dictionary); call is the number of calls of
\* getTranslationDictionaries made so far. The result is the words and
\* the code in the brackets appended to them ("" when nothing is appended).
translateString(text, dictionary, call) ==
    LET translated == ReplaceAll(text, dictionary.entries)
    IN IF translated = text /\ TextLength(text) > 3
       THEN LET langCode == FindLanguage(SimLanguages, call + 2, dictionary)
            IN [words |-> text, suffix |-> toUpperCase(langCode)]
       ELSE [words |-> translated, suffix |-> ""]

InitSim ==
    /\ pc = "sim-translate"
    /\ simText \in SimTexts
    /\ simLanguage \in {SimLanguages[i] : i \in 1..Len(SimLanguages)}
    /\ simResult = <<>>
    /\ sourceFiles = <<>>
    /\ fullTranslations = <<>>
    /\ mcpEnv = <<>>
    /\ attempts = <<>>
    /\ mcpTool = NoTool
    /\ mcpResult = "none"
    /\ IdleFlatten
    /\ IdleDetect
    /\ IdleRun
    /\ IdleMerge
    /\ IdleRuns

\* intelligentSimulation: one call of getTranslationDictionaries, whose
\* dictionary of the language is handed to translateObject and, for a
\* string, to translateString.
SimTranslate ==
    /\ pc = "sim-translate"
    /\ LET translationDictionaries == getTranslationDictionaries(1)
       IN simResult' = translateString(simText,
                                       translationDictionaries[simLanguage], 1)
    /\ pc' = "done"
    /\ UNCHANGED <<simText, simLanguage>>
    /\ UNCHANGED <<flatVars, detectVars, diskVars, runVars, mergeVars, runs,
                   fullVars, mcpVars>>

NextSim == SimTranslate

SpecSim == InitSim /\ [][NextSim]_vars

----------------------------------------------------------------------------
(* Claims about the flattener, checked under SpecFlatten *)

\* Every leaf of obj has its own entry in flat, under the key the recursion
\* gives its chain of keys, and flat has no other entry.
OneEntryPerLeaf ==
    /\ Len(flat) = Cardinality(LeafChains(obj))
    /\ \A l \in LeafChains(obj) :
           /\ HasOwn(flat, ChainKey(<<>>, l[1]))
           /\ Lookup(flat, ChainKey(<<>>, l[1])) = l[2]

\* C7 as claimed: for every document, documents with an empty nested
\* mapping or a key containing '.' included, unflattenObject(flattenObject(d))
\* returns and is structurally equal to d.
C7_RoundTripEveryDocument ==
    pc \in {"unflattened", "unflatten-thrown"} =>
        pc = "unflattened" /\ PlainDoc(unflat) = PlainDoc(obj)

\* C7 amended: for every document whose keys are plain names (non-empty,
\* without '.') and that has no empty nested mapping,
\* unflattenObject(flattenObject(d)) returns and is structurally equal to d.
C7_RoundTripPlainDocuments ==
    (pc \in {"unflattened", "unflatten-thrown"} /\ PlainKeys(obj) /\ ~HasEmptyMapping(obj)) =>
        pc = "unflattened" /\ PlainDoc(unflat) = PlainDoc(obj)

\* A round trip of a plain document with a nested leaf and an array leaf.
C7_Witness ==
    /\ pc = "unflattened"
    /\ PlainKeys(obj) /\ ~HasEmptyMapping(obj)
    /\ \E i \in 1..Len(flat) : Len(Split(flat[i].key)) = 3
    /\ \E i \in 1..Len(flat) : flat[i].value.kind = "null"
    /\ PlainDoc(unflat) = PlainDoc(obj)

\* C8 as claimed: for every document, flattenObject emits exactly one entry
\* per leaf under a distinct key (no leaf is overwritten), an array as one
\* entry.
C8_OneEntryPerLeafEveryDocument ==
    pc = "unflatten" => OneEntryPerLeaf

\* C8 amended: for every document whose keys are plain names (non-empty,
\* without '.'), flattenObject emits exactly one entry per leaf under a
\* distinct key (no leaf is overwritten), an array as one entry.
C8_OneEntryPerLeafPlainKeys ==
    (pc = "unflatten" /\ PlainKeys(obj)) => OneEntryPerLeaf

\* A plain document with two nested leaves, one of them an array, flattened.
C8_Witness ==
    /\ pc = "unflatten"
    /\ PlainKeys(obj)
    /\ Len(flat) >= 3
    /\ \E i \in 1..Len(flat) :
           flat[i].value.kind = "arr" /\ Len(Split(flat[i].key)) = 2
    /\ OneEntryPerLeaf

----------------------------------------------------------------------------
(* Claims about the change detector, checked under SpecDetect *)

NoRepeat(seq) == Len(seq) = Cardinality(SeqSet(seq))
KeysOf(seq) == {seq[i].key : i \in 1..Len(seq)}

\* Two leaf values differ under ===: in type, in value, or by being
\* two array objects.
Differ(a, b) ==
    \/ a.kind # b.kind
    \/ a.v # b.v
    \/ (a.kind = "arr" /\ a.ref # b.ref)

\* C4: for a document in both snapshot and current tree, detectFileChanges
\* lists as new exactly the flat paths only in current (with their value),
\* as modified exactly the paths in both whose values differ under strict
\* equality (with old and new value), as deleted exactly the paths only in
\* previous; a path in both with equal values has no entry; each path is
\* listed once and the three lists are pairwise disjoint.
C4_ExactClassification ==
    pc = "detected-file" =>
        LET p == flattenObject(previousFiles[fileName], <<>>)
            c == flattenObject(currentFiles[fileName], <<>>)
            n == fileChanges.newKeys
            m == fileChanges.modifiedKeys
            d == fileChanges.deletedKeys
        IN /\ SeqSet(n) = {[key |-> k, value |-> Lookup(c, k)] :
                               k \in FlatKeys(c) \ FlatKeys(p)}
           /\ SeqSet(m) = {[key |-> k, oldValue |-> Lookup(p, k),
                            newValue |-> Lookup(c, k)] :
                               k \in {x \in FlatKeys(c) \cap FlatKeys(p) :
                                         Differ(Lookup(p, x), Lookup(c, x))}}
           /\ SeqSet(d) = FlatKeys(p) \ FlatKeys(c)
           /\ NoRepeat(n) /\ NoRepeat(m) /\ NoRepeat(d)
           /\ KeysOf(n) \cap KeysOf(m) = {}
           /\ KeysOf(n) \cap SeqSet(d) = {}
           /\ KeysOf(m) \cap SeqSet(d) = {}
           /\ fileChanges.hasChanges = (n # <<>> \/ m # <<>> \/ d # <<>>)

\* A call that found a new path, a deleted path, an untouched path and a
\* path modified by a change of type only, "1" to 1 or back.
C4_Witness ==
    /\ pc = "detected-file"
    /\ fileChanges.newKeys # <<>>
    /\ fileChanges.deletedKeys # <<>>
    /\ \E i \in 1..Len(fileChanges.modifiedKeys) :
           LET e == fileChanges.modifiedKeys[i]
           IN e.oldValue.kind # e.newValue.kind /\ e.oldValue.v = e.newValue.v
    /\ \E k \in FlatKeys(flattenObject(currentFiles[fileName], <<>>)) :
           k \notin KeysOf(fileChanges.newKeys) \cup KeysOf(fileChanges.modifiedKeys)

\* The nodes of a document: <<chain of keys, value>> for every nested
\* mapping and every leaf.
RECURSIVE Nodes(_)
Nodes(o) ==
    UNION {{<< <<k>>, o[k] >>} \cup
           (IF IsMapping(o[k])
            THEN {<<(<<k>>) \o l[1], l[2]>> : l \in Nodes(o[k].kids)}
            ELSE {}) : k \in DOMAIN o}

\* The flat keys of the leaves at or under a node.
LeafKeysUnder(node) ==
    IF IsMapping(node[2])
    THEN {ChainKey(<<>>, node[1] \o l[1]) : l \in LeafChains(node[2].kids)}
    ELSE {ChainKey(<<>>, node[1])}

\* Where previous has a nested mapping and current a leaf, or the reverse,
\* every leaf of the old shape is listed as deleted, every leaf of the new
\* shape as new, and none of them as modified.
ShapeChangeIsDeleteAndNew ==
    \A old \in Nodes(previousFiles[fileName]) :
        \A new \in Nodes(currentFiles[fileName]) :
            (old[1] = new[1] /\ IsMapping(old[2]) # IsMapping(new[2])) =>
                /\ LeafKeysUnder(old) \subseteq SeqSet(fileChanges.deletedKeys)
                /\ LeafKeysUnder(new) \subseteq KeysOf(fileChanges.newKeys)
                /\ (LeafKeysUnder(old) \cup LeafKeysUnder(new))
                       \cap KeysOf(fileChanges.modifiedKeys) = {}

\* C5 as claimed: for every pair of documents, a change between nested
\* mapping and scalar is reported as deletions of the old leaves and
\* additions of the new ones, with no modified entry.
C5_ShapeChangeEveryDocument ==
    pc = "detected-file" => ShapeChangeIsDeleteAndNew

\* C5 amended: the same, for documents whose keys are plain names
\* (non-empty, without '.').
C5_ShapeChangePlainKeys ==
    (/\ pc = "detected-file"
     /\ PlainKeys(previousFiles[fileName])
     /\ PlainKeys(currentFiles[fileName])) => ShapeChangeIsDeleteAndNew

\* A nested mapping with a leaf became a scalar, in documents of plain keys.
C5_Witness ==
    /\ pc = "detected-file"
    /\ PlainKeys(previousFiles[fileName])
    /\ PlainKeys(currentFiles[fileName])
    /\ \E old \in Nodes(previousFiles[fileName]) :
           \E new \in Nodes(currentFiles[fileName]) :
               /\ old[1] = new[1]
               /\ IsMapping(old[2]) /\ ~IsMapping(new[2])
               /\ old[2].kids # EmptyObject
               /\ LeafKeysUnder(old) \subseteq SeqSet(fileChanges.deletedKeys)
               /\ LeafKeysUnder(new) \subseteq KeysOf(fileChanges.newKeys)

\* C6: detectChanges(current, current) reports nothing: hasChanges is false
\* and there is no new file, no modified file and no key entry.
C6_DetectSelfIsEmpty ==
    pc = "detected-self" => changes = NoChanges

\* detectChanges(current, current) for two documents, one empty, one with a
\* null leaf and an array leaf.
C6_Witness ==
    /\ pc = "detected-self"
    /\ DOMAIN currentFiles = {"a.json", "b.json"}
    /\ \E f \in DOMAIN currentFiles : currentFiles[f] = EmptyObject
    /\ \E f \in DOMAIN currentFiles : \E k \in DOMAIN currentFiles[f] :
           currentFiles[f][k].kind = "null"
    /\ \E f \in DOMAIN currentFiles : \E k \in DOMAIN currentFiles[f] :
           currentFiles[f][k].kind = "arr"
    /\ changes = NoChanges

----------------------------------------------------------------------------
(* Claims about delta building and merging, checked under Spec *)

Paths(doc) == FlatKeys(flattenObject(doc, <<>>))
ValueAt(doc, path) == Lookup(flattenObject(doc, <<>>), path)

\* The files detectChanges found new, and found modified.
NewFileSet == SeqSet(changes.newFiles)
ModifiedFileSet == SeqSet(changes.modifiedFiles)

\* The new, modified and deleted paths of a file in this run; every leaf
\* of a new file is new.
NewPaths(f) ==
    IF f \in ModifiedFileSet THEN KeysOf(changes.newKeys[f])
    ELSE IF f \in NewFileSet THEN Paths(currentFiles[f])
    ELSE {}
ModifiedPaths(f) ==
    IF f \in ModifiedFileSet THEN KeysOf(changes.modifiedKeys[f]) ELSE {}
DeletedPaths(f) ==
    IF f \in ModifiedFileSet THEN SeqSet(changes.deletedKeys[f]) ELSE {}

\* The document the collaborator returned for a language and a file, {}
\* when it returned none.
Returned(l, f) ==
    IF l \in DOMAIN newTranslations /\ f \in DOMAIN newTranslations[l]
    THEN newTranslations[l][f]
    ELSE EmptyObject

\* q is p or a prefix of p, key by key.
IsPrefix(q, p) ==
    LET qs == Split(q)
        ps == Split(p)
    IN Len(qs) <= Len(ps) /\ SubSeq(ps, 1, Len(qs)) = qs

Merged == pc = "saveTranslations"

\* The path p of the existing document of l and f keeps its value.
Preserved(l, f, p) ==
    /\ f \in DOMAIN mergedTranslations[l]
    /\ p \in Paths(mergedTranslations[l][f])
    /\ Plain(ValueAt(mergedTranslations[l][f], p))
           = Plain(ValueAt(existingTranslations[l][f], p))

\* The collaborator answered for every target language with the faithful
\* translation of the delta.
FaithfulAnswer ==
    newTranslations = [l \in Languages |-> Faithful(l, contentToTranslate)]

Apart(l, f, p) ==
    /\ \A q \in DeletedPaths(f) \cup Paths(Returned(l, f)) : ~IsPrefix(q, p)
    /\ \A n \in Nodes(Returned(l, f)) :
           ~(IsMapping(n[2]) /\ ChainKey(<<>>, n[1]) = p)

PlainRun ==
    /\ \A f \in DOMAIN currentFiles : PlainKeys(currentFiles[f])
    /\ \A f \in DOMAIN previousFiles : PlainKeys(previousFiles[f])
    /\ \A l \in DOMAIN existingTranslations :
           \A f \in DOMAIN existingTranslations[l] :
               PlainKeys(existingTranslations[l][f])
    /\ \A l \in DOMAIN newTranslations : \A f \in DOMAIN newTranslations[l] :
           PlainKeys(newTranslations[l][f])

\* C2: after mergeTranslations, for every target language and every new or
\* modified path for which the translator returned a translation, the merged
\* document has that translation at the path. Stated for runs whose
\* documents have only plain names as keys and in which the translator
\* answered faithfully.
C2_TranslationsInstalled ==
    (Merged /\ PlainRun /\ FaithfulAnswer) =>
        \A l \in Languages : \A f \in DOMAIN currentFiles :
            \A p \in (NewPaths(f) \cup ModifiedPaths(f)) \cap Paths(Returned(l, f)) :
                /\ f \in DOMAIN mergedTranslations[l]
                /\ p \in Paths(mergedTranslations[l][f])
                /\ ValueAt(mergedTranslations[l][f], p) = ValueAt(Returned(l, f), p)

\* No deleted path is a path of a merged translated document.
DeletedGone ==
    \A l \in Languages : \A f \in DOMAIN mergedTranslations[l] :
        DeletedPaths(f) \cap Paths(mergedTranslations[l][f]) = {}

\* C3 as claimed: after mergeTranslations no path of a document's
\* deletedKeys is a path of the merged translated document of any target
\* language.
C3_DeletedGoneEveryDocument ==
    Merged => DeletedGone

\* C3 amended: the same, when the translated documents, existing and
\* returned, have only plain names (non-empty, without '.') as keys.
C3_DeletedGonePlainKeys ==
    (/\ Merged
     /\ \A l \in Languages :
          /\ \A f \in DOMAIN existingTranslations[l] :
                 PlainKeys(existingTranslations[l][f])
          /\ \A f \in DOMAIN currentFiles : PlainKeys(Returned(l, f)))
        => DeletedGone

\* A deleted path that both languages had translated is gone from both.
C3_Witness ==
    /\ Merged
    /\ \E f \in ModifiedFileSet : \E p \in DeletedPaths(f) :
           /\ \A l \in Languages :
                  /\ f \in DOMAIN existingTranslations[l]
                  /\ PlainKeys(existingTranslations[l][f])
                  /\ PlainKeys(Returned(l, f))
                  /\ p \in Paths(existingTranslations[l][f])
                  /\ p \notin Paths(mergedTranslations[l][f])
           /\ \E l \in Languages : mergedTranslations[l][f] # EmptyObject

\* translateChanges has built the delta, or has thrown while building it.
DeltaBuilt == pc = "callClaude" \/ (pc = "failed" /\ requests = 0)

\* The delta holds for file f exactly the new and the modified paths, with
\* their values in the current document.
SparseExact(f) ==
    /\ f \in DOMAIN contentToTranslate
    /\ Paths(contentToTranslate[f]) = NewPaths(f) \cup ModifiedPaths(f)
    /\ \A p \in Paths(contentToTranslate[f]) :
           /\ p \in Paths(currentFiles[f])
           /\ ValueAt(contentToTranslate[f], p) = ValueAt(currentFiles[f], p)
    /\ Paths(contentToTranslate[f]) \cap DeletedPaths(f) = {}

\* C9 as claimed: for every document of the snapshot that has changes,
\* translateChanges builds a sparse document that holds exactly the new and
\* modified paths with their current values.
C9_SparseEveryDocument ==
    DeltaBuilt => (pc # "failed" /\ \A f \in ModifiedFileSet : SparseExact(f))

\* C9 amended: the same, for current documents whose keys are plain names
\* (non-empty, without '.').
C9_SparsePlainKeys ==
    (DeltaBuilt /\ \A f \in DOMAIN currentFiles : PlainKeys(currentFiles[f]))
        => (pc # "failed" /\ \A f \in ModifiedFileSet : SparseExact(f))

\* A sparse document with a new nested path, for a current document of
\* plain keys that also lost a path and kept one untouched.
C9_Witness ==
    /\ pc = "callClaude"
    /\ \E f \in ModifiedFileSet :
           /\ PlainKeys(currentFiles[f])
           /\ \E p \in NewPaths(f) : Len(Split(p)) = 2
           /\ DeletedPaths(f) # {}
           /\ Paths(currentFiles[f]) \ (NewPaths(f) \cup ModifiedPaths(f)) # {}
           /\ SparseExact(f)

\* C10: the delta passed to the collaborator holds no empty document; a
\* modified document without new and modified leaves is not in it. Stated
\* for runs whose current documents all have a leaf.
C10_NoEmptyDocumentInDelta ==
    (pc = "callClaude" /\ \A f \in DOMAIN currentFiles : Paths(currentFiles[f]) # {}) =>
        /\ \A f \in DOMAIN contentToTranslate :
               contentToTranslate[f] # EmptyObject
        /\ \A f \in ModifiedFileSet :
               (NewPaths(f) \cup ModifiedPaths(f) = {})
                   => f \notin DOMAIN contentToTranslate

----------------------------------------------------------------------------
(* Claims about new documents and the run-level signal *)

\* detectChanges has returned in the run.
Detected ==
    pc \notin {"readBaseFiles", "loadPreviousState", "detectChanges"}

\* C11: a document with no entry in the snapshot as loaded is listed as a
\* new file, has no new, modified or deleted key entries of its own, and is
\* in the delta as its complete current tree.
C11_NewDocumentWhole ==
    Detected =>
        \A f \in (DOMAIN currentFiles) \ (DOMAIN previousFiles) :
            /\ f \in NewFileSet
            /\ f \notin ModifiedFileSet
            /\ f \notin (DOMAIN changes.newKeys) \cup (DOMAIN changes.modifiedKeys)
                            \cup (DOMAIN changes.deletedKeys)
            /\ DeltaBuilt =>
                   /\ pc = "callClaude"
                   /\ f \in DOMAIN contentToTranslate
                   /\ PlainDoc(contentToTranslate[f]) = PlainDoc(currentFiles[f])

\* A first run (no snapshot) whose document has a nested mapping, a dotted
\* key and a plain leaf is in the delta whole.
C11_Witness ==
    /\ pc = "callClaude"
    /\ ~snapshot.exists
    /\ \E f \in NewFileSet :
           /\ \E k \in DOMAIN currentFiles[f] : IsMapping(currentFiles[f][k])
           /\ kAB \in DOMAIN currentFiles[f]
           /\ kB \in DOMAIN currentFiles[f]
           /\ PlainDoc(contentToTranslate[f]) = PlainDoc(currentFiles[f])

\* The flat maps of two documents differ: a path of one is not a path of
\* the other, or a path of both has values that differ under ===.
FlatDiffer(previousContent, currentContent) ==
    LET p == flattenObject(previousContent, <<>>)
        c == flattenObject(currentContent, <<>>)
    IN \/ FlatKeys(p) # FlatKeys(c)
       \/ \E k \in FlatKeys(p) \cap FlatKeys(c) : Differ(Lookup(p, k), Lookup(c, k))

\* C12: detectChanges sets hasChanges exactly when a document is wholly
\* new or a pre-existing document has a new, modified or deleted path;
\* modifiedFiles lists, once each, exactly the pre-existing documents with
\* such a path, and only they have key entries, at least one each.
C12_HasChangesExact ==
    pc = "detected" =>
        LET new == (DOMAIN currentFiles) \ (DOMAIN previousFiles)
            both == (DOMAIN currentFiles) \cap (DOMAIN previousFiles)
            changed == {f \in both : FlatDiffer(previousFiles[f], currentFiles[f])}
        IN /\ changes.hasChanges = (new # {} \/ changed # {})
           /\ SeqSet(changes.modifiedFiles) = changed
           /\ NoRepeat(changes.modifiedFiles)
           /\ SeqSet(changes.newFiles) = new
           /\ DOMAIN changes.newKeys = changed
           /\ DOMAIN changes.modifiedKeys = changed
           /\ DOMAIN changes.deletedKeys = changed
           /\ \A f \in changed :
                  \/ changes.newKeys[f] # <<>>
                  \/ changes.modifiedKeys[f] # <<>>
                  \/ changes.deletedKeys[f] # <<>>

\* hasChanges raised by a new document alone, next to a pre-existing
\* document that is unchanged and so not in modifiedFiles.
C12_Witness ==
    /\ pc = "detected"
    /\ changes.hasChanges
    /\ changes.newFiles = <<"b.json">>
    /\ changes.modifiedFiles = <<>>
    /\ "a.json" \in DOMAIN previousFiles
    /\ previousFiles["a.json"] # EmptyObject

----------------------------------------------------------------------------
(* Claims about the merger *)

PlainTranslations(translations) ==
    [l \in DOMAIN translations |->
        [f \in DOMAIN translations[l] |-> PlainDoc(translations[l][f])]]

RECURSIVE FollowsMergeRule(_, _, _)
FollowsMergeRule(t, s, r) ==
    /\ DOMAIN r = (DOMAIN t) \cup (DOMAIN s)
    /\ \A k \in DOMAIN r :
           IF k \notin DOMAIN s THEN r[k] = t[k]
           ELSE IF k \in DOMAIN t /\ IsMapping(t[k]) /\ IsMapping(s[k])
                THEN IsMapping(r[k]) /\ FollowsMergeRule(t[k].kids, s[k].kids, r[k].kids)
                ELSE r[k] = s[k]

\* C14: deepMerge follows the merge rule at every key of
\* source: two nested mappings are merged recursively, in every other case
\* the new value is the result; keys of target that source lacks are kept.
C14_DeepMergeFollowsRule ==
    pc = "deep-merged" => FollowsMergeRule(mergeTarget, mergeSource, mergeResult)

\* The keys of a dotted path lead through nested mappings of the document
\* to a value.
RECURSIVE Reachable(_, _)
Reachable(o, ks) ==
    /\ Head(ks) \in DOMAIN o
    /\ \/ Len(ks) = 1
       \/ IsMapping(o[Head(ks)]) /\ Reachable(o[Head(ks)].kids, Tail(ks))

\* Some value of the document, at any depth, is an array.
RECURSIVE HasArray(_)
HasArray(o) ==
    \E k \in DOMAIN o :
        o[k].kind = "arr" \/ (IsMapping(o[k]) /\ HasArray(o[k].kids))

\* C16: deleteNestedKey for a path that is absent from the document (absent
\* leaf, absent intermediate mapping, scalar or null in the place of an
\* intermediate mapping) raises no error and leaves the document unchanged.
\* Stated for documents without arrays.
C16_DeleteAbsentIsNoOp ==
    (/\ pc = "deleted"
     /\ ~HasArray(mergeTarget)
     /\ ~Reachable(mergeTarget, Split(deletedKey)))
        => (~deleteOutcome.thrown /\ deleteOutcome.obj = mergeTarget)

----------------------------------------------------------------------------
(* Claims about failures and persistence, checked under Spec *)

\* C17: a run whose request was answered without one of the target
\* languages fails before merging and writes nothing: it never reaches the
\* writing of the snapshot or its end. Stated for runs whose current
\* documents all have a leaf and whose answer holds a language.
C17_MissingLanguageFails ==
    (/\ pc \in {"saveCurrentState", "done"}
     /\ requests = 1
     /\ newTranslations # <<>>
     /\ \A f \in DOMAIN currentFiles : Paths(currentFiles[f]) # {})
        => Languages \subseteq DOMAIN newTranslations

\* C18: a failure of saveCurrentState after the translations were written
\* is not fatal: a step taken from the saving of the snapshot never ends in
\* the failed exit.
C18_SnapshotFailureNotFatal ==
    [][pc = "saveCurrentState" => pc' # "failed"]_vars

\* The state file is missing or its text is not JSON.
SnapshotUnusable == ~(snapshot.exists /\ snapshot.valid)

\* C19: when the state file is missing or cannot be parsed,
\* loadPreviousState returns the empty snapshot and the run goes on: every
\* current document is found new, none modified, and the delta holds every
\* current document whole.
C19_UnusableSnapshotIsEmpty ==
    (/\ SnapshotUnusable
     /\ pc \notin {"readBaseFiles", "loadPreviousState", "done", "failed"}) =>
        /\ previousFiles = <<>>
        /\ Detected =>
               /\ changes.hasChanges
               /\ NewFileSet = DOMAIN currentFiles
               /\ ModifiedFileSet = {}
        /\ pc = "callClaude" =>
               PlainTranslations("delta" :> contentToTranslate)
                   = PlainTranslations("delta" :> currentFiles)

\* A run over a state file that exists but is not JSON asks for the whole
\* document again although both languages have a translation of it.
C19_Witness ==
    /\ pc = "callClaude"
    /\ snapshot.exists /\ ~snapshot.valid
    /\ snapshot.files # <<>>
    /\ NewFileSet = {"a.json"}
    /\ \A l \in Languages : "a.json" \in DOMAIN existingTranslations[l]
    /\ \E k \in DOMAIN currentFiles["a.json"] : IsMapping(currentFiles["a.json"][k])
    /\ PlainDoc(contentToTranslate["a.json"]) = PlainDoc(currentFiles["a.json"])

\* The merged document of language l and file f is on disk.
Written(l, f) ==
    f \in DOMAIN store[l] /\ store[l][f] = PlainDoc(mergedTranslations[l][f])

\* The file f of language l is on disk as the run found it.
AsBefore(l, f) ==
    IF f \in DOMAIN existingTranslations[l]
    THEN f \in DOMAIN store[l]
         /\ store[l][f] = PlainDoc(existingTranslations[l][f])
    ELSE f \notin DOMAIN store[l] \/ store[l][f] = EmptyObject

\* C20: after a run that computed its merged result has ended, normally or
\* by a failure, either every merged document is on disk or every one of
\* them is as the run found it. Stated for runs whose current documents
\* all have a leaf and in which the translator answered faithfully.
C20_AllOrNothing ==
    (/\ pc \in {"done", "failed"}
     /\ mergedTranslations # <<>>
     /\ FaithfulAnswer
     /\ \A f \in DOMAIN currentFiles : Paths(currentFiles[f]) # {}) =>
        \/ \A l \in DOMAIN mergedTranslations :
               \A f \in DOMAIN mergedTranslations[l] : Written(l, f)
        \/ \A l \in DOMAIN mergedTranslations :
               \A f \in DOMAIN mergedTranslations[l] : AsBefore(l, f)

----------------------------------------------------------------------------
(* Claims about the order of a run and about runs that follow each other *)

\* The steps of a run before mergeTranslations is called.
BeforeMerge ==
    pc \in {"readBaseFiles", "loadPreviousState", "detectChanges",
            "loadExistingTranslations", "translateChanges", "callClaude"}

\* C21: a run sends at most one request to the collaborator; it sends it
\* from translateChanges, after detectChanges has returned with hasChanges
\* set and while nothing is merged; no step before mergeTranslations merges
\* or writes a translation or the snapshot; and a run whose hasChanges is
\* false has sent none.
C21_OneRequestInOrder ==
    [][/\ requests' <= 1
       /\ requests' # requests =>
              /\ requests = 0
              /\ pc = "translateChanges"
              /\ Detected /\ changes.hasChanges
              /\ mergedTranslations = <<>>
       /\ BeforeMerge => UNCHANGED <<store, snapshot, mergedTranslations>>
       /\ (Detected' /\ ~changes'.hasChanges) => requests' = 0]_vars

\* A run that sent its one request has merged, written the translations and
\* the snapshot, and ended.
C21_Witness ==
    /\ pc = "done"
    /\ requests = 1
    /\ mergedTranslations # <<>>
    /\ \E l \in Languages : \E f \in DOMAIN mergedTranslations[l] : Written(l, f)
    /\ snapshot.exists /\ snapshot.valid

\* Both runs have ended.
BothEnded == \A i \in RunIds : runs[i].pc \in {"done", "failed"}

\* Run i wrote the file f of language l.
WroteFile(i, l, f) ==
    /\ runs[i].pc = "done"
    /\ l \in DOMAIN runs[i].mergedTranslations
    /\ f \in DOMAIN runs[i].mergedTranslations[l]

\* The state file is the source tree run i read.
SnapshotOf(i) ==
    /\ snapshot.exists /\ snapshot.valid
    /\ snapshot.files
           = [f \in DOMAIN runs[i].currentFiles |-> PlainDoc(runs[i].currentFiles[f])]

\* C22 (what every interleaving of two runs gives): no run ever fails, so
\* none notices the other; when both have ended, every translated file a
\* run wrote is on disk exactly as one of the runs that wrote it merged it,
\* and the state file, when a run saved it, is the source tree of such a
\* run: nothing on disk is a blend of the two results.
C22_LastWriterWins ==
    /\ \A i \in RunIds : runs[i].pc # "failed"
    /\ BothEnded =>
           /\ \A l \in Languages : \A f \in DOMAIN store[l] :
                  (\E i \in RunIds : WroteFile(i, l, f)) =>
                      \E i \in RunIds :
                          /\ WroteFile(i, l, f)
                          /\ store[l][f] = PlainDoc(runs[i].mergedTranslations[l][f])
           /\ (\E i \in RunIds : runs[i].changes.hasChanges) =>
                  \E i \in RunIds : runs[i].changes.hasChanges /\ SnapshotOf(i)

\* C22 (the interleaving claimed): two runs side by side, neither started
\* after the other had ended, both sent their request and ended normally;
\* every file on disk and the state file are those of one run, and a
\* document the other run had merged and written is not on disk.
C22_Witness ==
    /\ \A i \in RunIds : runs[i].pc = "done" /\ ~runs[i].after /\ runs[i].requests = 1
    /\ \E j \in RunIds :
           /\ \A l \in Languages : \A f \in DOMAIN runs[j].mergedTranslations[l] :
                  store[l][f] = PlainDoc(runs[j].mergedTranslations[l][f])
           /\ SnapshotOf(j)
           /\ \E l \in Languages :
                  \E f \in DOMAIN runs[OtherRun(j)].mergedTranslations[l] :
                      store[l][f] # PlainDoc(runs[OtherRun(j)].mergedTranslations[l][f])

\* The current source tree as saveCurrentState writes it.
CurrentState ==
    [exists |-> TRUE, valid |-> TRUE,
     files |-> [f \in DOMAIN currentFiles |-> PlainDoc(currentFiles[f])]]

\* C23: the state file changes only in saveCurrentState, which the run
\* reaches only with every merged document of the run on disk; a run that
\* ends there normally has replaced it by exactly the current source tree;
\* a step that fails anywhere else (detection, request, merge, the writing
\* of the translations) leaves the state file as it was.
C23_SnapshotAfterWrite ==
    [][/\ snapshot' # snapshot =>
              /\ pc = "saveCurrentState"
              /\ \A l \in DOMAIN mergedTranslations :
                     \A f \in DOMAIN mergedTranslations[l] : Written(l, f)
       /\ (pc = "saveCurrentState" /\ pc' = "done") => snapshot' = CurrentState
       /\ (pc # "saveCurrentState" /\ pc' = "failed") => snapshot' = snapshot]_vars

\* A run has ended normally: the state file, which held another tree of
\* the document, is the current source tree, and the merged documents of
\* both languages are on disk.
C23_Witness ==
    /\ pc = "done"
    /\ changes.hasChanges
    /\ previousFiles # <<>>
    /\ snapshot = CurrentState
    /\ snapshot.files # [f \in DOMAIN previousFiles |-> PlainDoc(previousFiles[f])]
    /\ \A l \in Languages : \E f \in DOMAIN mergedTranslations[l] :
           mergedTranslations[l][f] # EmptyObject /\ Written(l, f)

----------------------------------------------------------------------------
(* Claims about loadExistingTranslations, checked under SpecLoad *)

\* The file f of language l is on disk.
OnDisk(l, f) == l \in DOMAIN store /\ f \in DOMAIN store[l]

\* C24: loadExistingTranslations returns an entry for each target language
\* and for no other, empty when the language has no directory; a file
\* without top-level keys and a file that does not parse are not in it;
\* every other file of the language is in it with the document of the file.
C24_EmptyAndUnreadableExcluded ==
    pc = "loaded" =>
        /\ DOMAIN existingTranslations = Languages
        /\ \A l \in Languages :
               /\ l \notin DOMAIN store => existingTranslations[l] = <<>>
               /\ \A f \in DOMAIN existingTranslations[l] : OnDisk(l, f)
               /\ \A f \in SeqSet(FileOrder) :
                      OnDisk(l, f) =>
                          IF store[l][f] = NotJson \/ DOMAIN store[l][f] = {}
                          THEN f \notin DOMAIN existingTranslations[l]
                          ELSE /\ f \in DOMAIN existingTranslations[l]
                               /\ PlainDoc(existingTranslations[l][f]) = store[l][f]

\* One language has no directory; the other has a file without keys, which
\* is left out, beside a file with one key whose mapping is empty, which is
\* loaded.
C24_Witness ==
    /\ pc = "loaded"
    /\ \E l \in Languages : l \notin DOMAIN store /\ existingTranslations[l] = <<>>
    /\ \E l \in Languages :
           /\ OnDisk(l, "b.json") /\ store[l]["b.json"] = EmptyObject
           /\ OnDisk(l, "a.json") /\ store[l]["a.json"] = kA :> Obj(EmptyObject)
           /\ DOMAIN existingTranslations[l] = {"a.json"}

----------------------------------------------------------------------------
(* Claims about the full translator, checked under SpecFull *)

\* C25: in the full translator a step that leaves a response without one
\* of the target languages never leads to the writing of files or to the
\* normal end; files are written only by saveTranslations, with every
\* target language in the response; and a step changes or creates the
\* files of target languages only.
C25_FullValidatesLanguages ==
    [][/\ ~(Languages \subseteq DOMAIN fullTranslations') =>
              /\ pc' \notin {"full-saveTranslations", "done"}
              /\ store' = store
       /\ store' # store =>
              /\ pc = "full-saveTranslations"
              /\ Languages \subseteq DOMAIN fullTranslations
       /\ \A l \in DOMAIN store' :
              (l \notin DOMAIN store \/ store'[l] # store[l]) => l \in Languages]_vars

\* A response with the files of es and of the unexpected language but
\* without fr has ended the run with no file written.
C25_Witness ==
    /\ pc = "failed"
    /\ "es" \in DOMAIN fullTranslations
    /\ fullTranslations["es"].kids # <<>>
    /\ UnexpectedLanguage \in DOMAIN fullTranslations
    /\ "fr" \notin DOMAIN fullTranslations
    /\ store \in FullStores

----------------------------------------------------------------------------
(* Claims about the MCP processor, checked under SpecMcp *)

\* Load option n can succeed in this installation.
OptionWorks(n) ==
    CASE n = 1 -> mcpEnv.compiled \in {"plain", "exports"}
      [] n = 2 -> mcpEnv.tsx
      [] n = 3 -> mcpEnv.source

\* The options are tried in the order 1, 2, 3; the tool is the result of
\* the first option that works, tried last, or the manual wrapper when
\* none works.
LoadedInOrder ==
    /\ attempts = [n \in 1..Len(attempts) |-> n]
    /\ \A n \in 1..Len(attempts) : n < Len(attempts) => ~OptionWorks(n)
    /\ mcpTool # NoTool =>
           LET last == Len(attempts)
           IN CASE mcpTool.kind = "module" -> last = 1 /\ OptionWorks(1)
                [] mcpTool.kind = "tsx-wrapper" -> last = 2 /\ OptionWorks(2)
                [] mcpTool.kind = "ts-wrapper" -> last = 3 /\ OptionWorks(3)
                [] mcpTool.kind = "manual-wrapper" -> last = 3 /\ ~OptionWorks(3)

\* C26: the load options are tried in order, the first that succeeds gives
\* the tool and no later one is tried, the manual wrapper is the tool when
\* all fail; and the tool handed to executeMCPTool has a callable
\* localizationTranslationTool.
C26_ToolLoadedAndCallable ==
    /\ LoadedInOrder
    /\ pc = "mcp-execute" => mcpTool.callable

----------------------------------------------------------------------------
(* Claims about the simulation, checked under SpecSim *)

\* C27: a string longer than 3 characters that no dictionary entry changes
\* is translated to the original text followed by the upper-cased code of
\* the target language in square brackets.
C27_LanguageIndicator ==
    (/\ pc = "done"
     /\ TextLength(simText) > 3
     /\ ReplaceAll(simText, DictionaryEntries(simLanguage)) = simText)
    => simResult = [words |-> simText, suffix |-> toUpperCase(simLanguage)]

----------------------------------------------------------------------------
(* Claims about a run that follows a completed run, checked under SpecRuns *)

\* Run i started after the other run had ended, and the other run had
\* changes, so it saved its translations and the state file.
FollowsCompletedRun(i) ==
    /\ runs[i].after
    /\ runs[OtherRun(i)].pc = "done"
    /\ runs[OtherRun(i)].changes.hasChanges

\* Run i has made its call of detectChanges.
HasDetected(i) ==
    runs[i].pc \notin {"readBaseFiles", "loadPreviousState", "detectChanges"}

\* C28: a run that follows a completed run over the same source tree
\* reports hasChanges = false, sends no request and writes nothing, also
\* for documents with array-valued and null leaves.
C28_RerunFindsNothing ==
    \A i \in RunIds :
        (FollowsCompletedRun(i) /\ HasDetected(i)) =>
            /\ ~runs[i].changes.hasChanges
            /\ runs[i].requests = 0
            /\ runs[i].writes = 0
            /\ runs[i].pc = "done"

----------------------------------------------------------------------------
(* Claims about the translated store from run to run, checked under Spec *)

\* The leaf paths of the translation of document f for language l in a
\* set of translated documents; none when there is no such document.
TranslatedPaths(translated, l, f) ==
    IF l \in DOMAIN translated /\ f \in DOMAIN translated[l]
    THEN Paths(translated[l][f])
    ELSE {}

\* The translated documents as they were before the run: as the run
\* loaded them, or, when it found no changes and loaded none, as they are
\* on disk, where the run has written nothing.
TranslationsBefore ==
    IF changes.hasChanges THEN existingTranslations ELSE store

\* Before the run every translation of a snapshot document had exactly
\* the snapshot document's leaf paths.
ParityBefore ==
    \A f \in DOMAIN previousFiles : \A l \in Languages :
        TranslatedPaths(TranslationsBefore, l, f) = Paths(previousFiles[f])

\* On disk every translation of a current source document has exactly the
\* source document's leaf paths.
ParityAfter ==
    \A f \in DOMAIN currentFiles : \A l \in Languages :
        TranslatedPaths(store, l, f) = Paths(currentFiles[f])

\* The run ended normally, and if it called the translator, the answer
\* was the faithful one for every target language.
SucceededFaithfully ==
    /\ pc = "done"
    /\ changes.hasChanges => FaithfulAnswer

\* Before the run every translated document was the translation of a
\* snapshot document.
NoStrayTranslations ==
    \A l \in DOMAIN TranslationsBefore :
        DOMAIN TranslationsBefore[l] \subseteq DOMAIN previousFiles

\* C29: when the translator answers for every target language with
\* documents of exactly the delta's leaf paths and, before the run, every
\* translation of a snapshot document has the snapshot document's leaf
\* paths (and nothing else is in the translated store), then after a
\* successful run every translation of a current source document has the
\* current source document's leaf paths.
C29_KeySetParity ==
    (SucceededFaithfully /\ ParityBefore /\ NoStrayTranslations) => ParityAfter

----------------------------------------------------------------------------
(* Claims about a document removed from the source tree, checked under     *)
(* SpecRuns                                                                *)

\* The documents that are in the snapshot run i loaded and not among the
\* base files it read.
RemovedDocuments(run) == DOMAIN run.previousFiles \ DOMAIN run.currentFiles

\* The documents for which the changes hold an entry.
ChangeEntries(ch) ==
    SeqSet(ch.newFiles) \cup SeqSet(ch.modifiedFiles)
        \cup DOMAIN ch.newKeys \cup DOMAIN ch.modifiedKeys \cup DOMAIN ch.deletedKeys

\* C30: a document of the snapshot that is not among the base files of a
\* run has no entry in the run's changes, hasChanges is set only on account
\* of documents that are among the base files, and no step of the run
\* deletes or changes the document's translation in any target language.
C30_RemovedDocumentUntouched ==
    [][\A i \in RunIds :
           runs'[i] # runs[i] =>
               /\ RemovedDocuments(runs'[i]) \cap ChangeEntries(runs'[i].changes) = {}
               /\ runs'[i].changes.hasChanges =>
                      \E f \in DOMAIN runs'[i].currentFiles :
                          f \in ChangeEntries(runs'[i].changes)
               /\ \A f \in RemovedDocuments(runs'[i]) : \A l \in Languages :
                      /\ f \in DOMAIN store'[l] <=> f \in DOMAIN store[l]
                      /\ f \in DOMAIN store[l] => store'[l][f] = store[l][f]]_vars

\* C30 (its case happens): a run whose snapshot held b.json, which is not
\* among the base files, found changes in a.json, wrote its files and
\* ended; the translations of b.json are on disk in every language.
C30_Witness ==
    /\ \E i \in RunIds :
           /\ runs[i].pc = "done"
           /\ "b.json" \in RemovedDocuments(runs[i])
           /\ runs[i].changes.hasChanges
           /\ runs[i].writes > 0
    /\ \A l \in Languages : "b.json" \in DOMAIN store[l]

====
